---------------------------- MODULE Spec2Model ----------------------------
(***************************************************************************)
(* gibrun: a client-side layer over a Redis-like key-value store.          *)
(*                                                                         *)
(* The components are modelled independently, each with a specification    *)
(* of its own over the variables it owns:                                  *)
(*   ScanSpec         the Blusukan key scanner  (Scanner.Next / All / ...) *)
(*   ClusterScanSpec  the cluster scanner       (ClusterScanner.All/Each)  *)
(*   LimiterSpec      the Bansos rate limiter   (RateLimiter.AllowN/Reset) *)
(*   PipelineSpec     concurrent callers of AllowN, command by command     *)
(*   TwinSpec         two limiters that differ in BurstSize, side by side  *)
(*   MigrateSpec      the batched migrator      (Migrate / migrateKey)     *)
(*   ClientSpec       Gib, Run, Sprint, Del, Exists                        *)
(*   RoundTripSpec    Gib, Del, Run and Exists against what was written    *)
(* The variables of the other components stay at their idle values.       *)
(***************************************************************************)
EXTENDS Integers, Sequences, FiniteSets, TLC

VARIABLES
    \* ---- scanner -------------------------------------------------------
    pages,      \* the store's answer to SCAN: the sequence of pages it returns
    failAt,     \* number of the SCAN call that fails (0: no call fails)
    sctx,       \* the scanner's context: TRUE once cancelled (ctx.Done())
    s,          \* the Scanner: [cursor, buffer, bufIdx, done, err]
    scanCalls,  \* cursors of the SCAN calls issued so far, in order
    fold,       \* what the consumer is running: "idle", "All", "AllRet",
                \* "Each", "EachRet", "Count", "CountRet"
    manual,     \* TRUE once the consumer has called Next() itself
    lastNext,   \* result of the consumer's last own Next(): [ret, key]
    allKeys,    \* the keys slice of All()
    allErr,     \* the error All() returned
    eachRes,    \* Each(fn): [calls, stopped, err]: the keys fn was invoked
                \* on, whether fn answered false, the error Each returned
    countRes,   \* Count(): [count, err]
    \* ---- rate limiter -------------------------------------------------
    config,     \* RateLimiter.config: [KeyPrefix, Rate, Window, BurstSize]
    now,        \* the wall clock, in ticks (TicksPerSec ticks a second)
    rdb,        \* the store: key |-> [val, exp], exp the expiry deadline
    res,        \* the last limiter operation and what it returned
    sent,       \* per <<identity, window index>>: the increments the store
                \* executed since the last executed delete [calls, sum, plain],
                \* and the store key they went to
    lastAt,     \* per identity: time of its previous check
    ops,        \* number of limiter operations issued
    fails,      \* number of round trips that failed
    \* ---- migrator -----------------------------------------------------
    opts,       \* MigrateOptions: [BatchSize, TTL, PreserveTTL, DryRun,
                \*   OnProgress, OnError] (the callbacks: set or nil)
    cluster,    \* TRUE: MigrateCluster, FALSE: Migrate
    src,        \* the source store: key |-> [val, ttl]
    dst,        \* the destination store: key |-> [val, ttl], ttl 0: none
    mctx,       \* the migration's context: TRUE once cancelled
    mpc,        \* where Migrate is: "call", "batch", "key", "done"
    keys,       \* the keys enumerated from the source
    bi,         \* i: the start of the current batch
    bend,       \* end: one past the last key of the current batch
    kj,         \* number of keys of the list taken up so far
    result,     \* the MigrateResult
    mret,       \* what Migrate returned: [res, err, key]
    progress,   \* the OnProgress calls so far: <<done, total>>
    errCalls,   \* the OnError calls so far: [key, err, cont]
    srcReads,   \* the GET / TTL commands sent to the source and their
                \* replies: <<cmd, key, reply>>, the reply as text
    faults,     \* number of store calls of migrateKey that failed
    \* ---- concurrent callers of the rate limiter -----------------------
    pipe,       \* per caller: the call it is in and how far its pipeline is
    pstarted,   \* number of calls the callers have started
    \* ---- the client: Gib, Run, Sprint, Del, Exists --------------------
    kv,         \* the store: key |-> [val, ttl], val the bytes as a string
    last,       \* the last client operation and what it returned
    \* ---- two limiters side by side -----------------------------------
    twin,       \* the second limiter: [config, rdb], its own store
    hist,       \* the checks made so far on both limiters, in order:
                \* [id, n, at, idx, result, twinResult]
    \* ---- the cluster scanner ----------------------------------------
    masters,    \* per master: the pages its SCAN returns, in order
    cs,         \* ClusterScanner.All / Each under way: per master the
                \* callback's position (pc), cursor, keys and loop index;
                \* the shared allKeys and stopped; the calls of fn; what
                \* the callbacks and the operation returned
    \* ---- Gib / Del / Run on a key, and what was written -------------
    journal     \* what the successful Gib and Del calls wrote so far:
                \* per key clean (nothing else happened to it), cur (the
                \* value of the last Gib, NilValue if none or deleted),
                \* gone (deleted after a Gib); got and dest: the value the
                \* last Run decoded and the destination it was given

scanVars == <<pages, failAt, sctx, s, scanCalls, fold, manual, lastNext,
              allKeys, allErr, eachRes, countRes>>

limVars == <<config, now, rdb, res, sent, lastAt, ops, fails>>

migVars == <<opts, cluster, src, dst, mctx, mpc, keys, bi, bend, kj, result,
             mret, progress, errCalls, srcReads, faults>>

pipeVars == <<pipe, pstarted>>

cliVars == <<kv, last>>

twinVars == <<twin, hist>>

csVars == <<masters, cs>>

tripVars == <<journal>>

vars == <<scanVars, limVars, migVars, pipeVars, cliVars, twinVars, csVars,
          tripVars>>

(* What a step of one component leaves alone.                              *)
ScanOnly ==
    UNCHANGED <<limVars, migVars, pipeVars, cliVars, twinVars, csVars,
                tripVars>>

LimOnly ==
    UNCHANGED <<scanVars, migVars, pipeVars, cliVars, twinVars, csVars,
                tripVars>>

MigOnly ==
    UNCHANGED <<scanVars, limVars, pipeVars, cliVars, twinVars, csVars,
                tripVars>>

PipeOnly ==
    UNCHANGED <<scanVars, migVars, cliVars, twinVars, csVars, tripVars, config,
                res, sent, lastAt, ops, fails>>

CliOnly ==
    UNCHANGED <<scanVars, limVars, migVars, pipeVars, twinVars, csVars,
                tripVars>>

TwinOnly ==
    UNCHANGED <<scanVars, migVars, pipeVars, cliVars, csVars, tripVars, config,
                res, sent, lastAt, ops, fails>>

CsOnly ==
    UNCHANGED <<scanVars, limVars, migVars, pipeVars, cliVars, twinVars,
                tripVars>>

TripOnly ==
    UNCHANGED <<scanVars, limVars, migVars, pipeVars, twinVars, csVars>>

-----------------------------------------------------------------------------
(* Bounds of the scanner model.                                            *)
MaxKeys == 3
MaxPages == 3

(* Generic helpers.                                                        *)
RECURSIVE Flatten(_)
Flatten(ps) == IF ps = <<>> THEN <<>> ELSE Head(ps) \o Flatten(Tail(ps))

KeyName(i) == "k" \o ToString(i)

KeySeq(m) == [i \in 1..m |-> KeyName(i)]

(* Every way to split the keys k1..km (m <= MaxKeys) into 1..MaxPages      *)
(* pages, empty pages included: cut[i] is the number of keys in the first  *)
(* i pages.                                                                *)
SplitsOf(ks, maxPages) ==
    UNION { { [i \in 1..p |-> SubSeq(ks, (IF i = 1 THEN 0 ELSE cut[i-1]) + 1,
                                     cut[i])] :
              cut \in { c \in [1..p -> 0..Len(ks)] :
                          /\ c[p] = Len(ks)
                          /\ \A i \in 1..(p-1) : c[i] <= c[i+1] } } :
            p \in 1..maxPages }

PageSplits == UNION { SplitsOf(KeySeq(m), MaxPages) : m \in 0..MaxKeys }

-----------------------------------------------------------------------------
(* The store's SCAN command as the scanner sees it.  The cursor is the     *)
(* number of pages already returned; the store answers the last page       *)
(* together with cursor 0.  The Type filter and Pattern select which keys  *)
(* the pages hold; they do not change the paging protocol.                 *)
StoreScan(cursor) ==
    [keys   |-> pages[cursor + 1],
     cursor |-> IF cursor + 1 >= Len(pages) THEN 0 ELSE cursor + 1]

(* Scanner.Next without the test of done at its entry.                     *)
RECURSIVE ScannerNext_NoDoneLatch(_, _)
ScannerNext_NoDoneLatch(sc, calls) ==
    IF sc.err # "nil"
    THEN [s |-> sc, calls |-> calls, ret |-> FALSE]
    ELSE IF sctx
    THEN [s |-> [sc EXCEPT !.err = "canceled"], calls |-> calls, ret |-> FALSE]
    ELSE IF sc.bufIdx < Len(sc.buffer)
    THEN [s |-> [sc EXCEPT !.bufIdx = @ + 1], calls |-> calls, ret |-> TRUE]
    ELSE LET calls1 == Append(calls, sc.cursor)
             r      == StoreScan(sc.cursor)
         IN  IF Len(calls1) = failAt
             THEN [s |-> [sc EXCEPT !.buffer = <<>>, !.bufIdx = 0,
                                    !.err = "scan"],
                   calls |-> calls1, ret |-> FALSE]
             ELSE LET s1 == [sc EXCEPT !.cursor = r.cursor,
                                       !.buffer = r.keys,
                                       !.bufIdx = 0,
                                       !.done   = (r.cursor = 0)]
                  IN  IF Len(s1.buffer) > 0
                      THEN [s |-> [s1 EXCEPT !.bufIdx = 1],
                            calls |-> calls1, ret |-> TRUE]
                      ELSE IF ~s1.done
                      THEN ScannerNext_NoDoneLatch(s1, calls1)
                      ELSE [s |-> s1, calls |-> calls1, ret |-> FALSE]

(* Scanner.Next appending the fetched page to the buffer instead of        *)
(* replacing the buffer with it.                                           *)
RECURSIVE ScannerNext_AppendBuffer(_, _)
ScannerNext_AppendBuffer(sc, calls) ==
    IF sc.done \/ sc.err # "nil"
    THEN [s |-> sc, calls |-> calls, ret |-> FALSE]
    ELSE IF sctx
    THEN [s |-> [sc EXCEPT !.err = "canceled"], calls |-> calls, ret |-> FALSE]
    ELSE IF sc.bufIdx < Len(sc.buffer)
    THEN [s |-> [sc EXCEPT !.bufIdx = @ + 1], calls |-> calls, ret |-> TRUE]
    ELSE LET calls1 == Append(calls, sc.cursor)
             r      == StoreScan(sc.cursor)
         IN  IF Len(calls1) = failAt
             THEN [s |-> [sc EXCEPT !.buffer = <<>>, !.bufIdx = 0,
                                    !.err = "scan"],
                   calls |-> calls1, ret |-> FALSE]
             ELSE LET s1 == [sc EXCEPT !.cursor = r.cursor,
                                       !.buffer = sc.buffer \o r.keys,
                                       !.done   = (r.cursor = 0)]
                  IN  IF Len(r.keys) > 0
                      THEN [s |-> [s1 EXCEPT !.bufIdx = @ + 1],
                            calls |-> calls1, ret |-> TRUE]
                      ELSE IF ~s1.done
                      THEN ScannerNext_AppendBuffer(s1, calls1)
                      ELSE [s |-> s1, calls |-> calls1, ret |-> FALSE]

(* Scanner.Next without the test of err at its entry.                      *)
RECURSIVE ScannerNext_NoErrLatch(_, _)
ScannerNext_NoErrLatch(sc, calls) ==
    IF sc.done
    THEN [s |-> sc, calls |-> calls, ret |-> FALSE]
    ELSE IF sctx
    THEN [s |-> [sc EXCEPT !.err = "canceled"], calls |-> calls, ret |-> FALSE]
    ELSE IF sc.bufIdx < Len(sc.buffer)
    THEN [s |-> [sc EXCEPT !.bufIdx = @ + 1], calls |-> calls, ret |-> TRUE]
    ELSE LET calls1 == Append(calls, sc.cursor)
             r      == StoreScan(sc.cursor)
         IN  IF Len(calls1) = failAt
             THEN [s |-> [sc EXCEPT !.buffer = <<>>, !.bufIdx = 0,
                                    !.err = "scan"],
                   calls |-> calls1, ret |-> FALSE]
             ELSE LET s1 == [sc EXCEPT !.cursor = r.cursor,
                                       !.buffer = r.keys,
                                       !.bufIdx = 0,
                                       !.done   = (r.cursor = 0)]
                  IN  IF Len(s1.buffer) > 0
                      THEN [s |-> [s1 EXCEPT !.bufIdx = 1],
                            calls |-> calls1, ret |-> TRUE]
                      ELSE IF ~s1.done
                      THEN ScannerNext_NoErrLatch(s1, calls1)
                      ELSE [s |-> s1, calls |-> calls1, ret |-> FALSE]

(* Scanner.Next looking at the buffer before the context.                  *)
RECURSIVE ScannerNext_BufferFirst(_, _)
ScannerNext_BufferFirst(sc, calls) ==
    IF sc.done \/ sc.err # "nil"
    THEN [s |-> sc, calls |-> calls, ret |-> FALSE]
    ELSE IF sc.bufIdx < Len(sc.buffer)
    THEN [s |-> [sc EXCEPT !.bufIdx = @ + 1], calls |-> calls, ret |-> TRUE]
    ELSE IF sctx
    THEN [s |-> [sc EXCEPT !.err = "canceled"], calls |-> calls, ret |-> FALSE]
    ELSE LET calls1 == Append(calls, sc.cursor)
             r      == StoreScan(sc.cursor)
         IN  IF Len(calls1) = failAt
             THEN [s |-> [sc EXCEPT !.buffer = <<>>, !.bufIdx = 0,
                                    !.err = "scan"],
                   calls |-> calls1, ret |-> FALSE]
             ELSE LET s1 == [sc EXCEPT !.cursor = r.cursor,
                                       !.buffer = r.keys,
                                       !.bufIdx = 0,
                                       !.done   = (r.cursor = 0)]
                  IN  IF Len(s1.buffer) > 0
                      THEN [s |-> [s1 EXCEPT !.bufIdx = 1],
                            calls |-> calls1, ret |-> TRUE]
                      ELSE IF ~s1.done
                      THEN ScannerNext_BufferFirst(s1, calls1)
                      ELSE [s |-> s1, calls |-> calls1, ret |-> FALSE]

(* Scanner.Next, the whole call, recursion on empty pages included.        *)
(* sc: the Scanner; calls: the SCAN calls issued so far.                   *)
RECURSIVE ScannerNext(_, _)
ScannerNext(sc, calls) ==
    IF sc.done \/ sc.err # "nil"
    THEN [s |-> sc, calls |-> calls, ret |-> FALSE]
    ELSE IF sctx
    THEN [s |-> [sc EXCEPT !.err = "canceled"], calls |-> calls, ret |-> FALSE]
    ELSE IF sc.bufIdx < Len(sc.buffer)
    THEN [s |-> [sc EXCEPT !.bufIdx = @ + 1], calls |-> calls, ret |-> TRUE]
    ELSE LET calls1 == Append(calls, sc.cursor)
             r      == StoreScan(sc.cursor)
         IN  IF Len(calls1) = failAt
             THEN [s |-> [sc EXCEPT !.buffer = <<>>, !.bufIdx = 0,
                                    !.err = "scan"],
                   calls |-> calls1, ret |-> FALSE]
             ELSE LET s1 == [sc EXCEPT !.cursor = r.cursor,
                                       !.buffer = r.keys,
                                       !.bufIdx = 0,
                                       !.done   = (r.cursor = 0)]
                  IN  IF Len(s1.buffer) > 0
                      THEN [s |-> [s1 EXCEPT !.bufIdx = 1],
                            calls |-> calls1, ret |-> TRUE]
                      ELSE IF ~s1.done
                      THEN ScannerNext(s1, calls1)
                      ELSE [s |-> s1, calls |-> calls1, ret |-> FALSE]

(* Scanner.Key                                                             *)
ScannerKey(sc) ==
    IF sc.bufIdx > 0 /\ sc.bufIdx <= Len(sc.buffer)
    THEN sc.buffer[sc.bufIdx]
    ELSE ""

(* Client.Blusukan: a new Scanner.                                         *)
Blusukan ==
    [cursor |-> 0, buffer |-> <<>>, bufIdx |-> 0, done |-> FALSE, err |-> "nil"]

(* The keys Scanner.All collects from the scanner sc on.                   *)
RECURSIVE ScannerAll(_, _)
ScannerAll(sc, calls) ==
    LET r == ScannerNext(sc, calls)
    IN  IF r.ret THEN <<ScannerKey(r.s)>> \o ScannerAll(r.s, r.calls)
        ELSE <<>>

ScanInit ==
    /\ pages \in PageSplits
    /\ failAt \in 0..MaxPages
    /\ sctx = FALSE
    /\ s = Blusukan
    /\ scanCalls = <<>>
    /\ fold = "idle"
    /\ manual = FALSE
    /\ lastNext = [ret |-> FALSE, key |-> ""]
    /\ allKeys = <<>>
    /\ allErr = "nil"
    /\ eachRes = [calls |-> <<>>, stopped |-> FALSE, err |-> "nil"]
    /\ countRes = [count |-> 0, err |-> "nil"]

(* The scanner's variables while another component runs.                   *)
ScanIdle ==
    /\ pages = <<<<>>>>
    /\ failAt = 0
    /\ sctx = FALSE
    /\ s = Blusukan
    /\ scanCalls = <<>>
    /\ fold = "idle"
    /\ manual = FALSE
    /\ lastNext = [ret |-> FALSE, key |-> ""]
    /\ allKeys = <<>>
    /\ allErr = "nil"
    /\ eachRes = [calls |-> <<>>, stopped |-> FALSE, err |-> "nil"]
    /\ countRes = [count |-> 0, err |-> "nil"]

(* The context of the scan is cancelled by its owner.                      *)
ScanCancel ==
    /\ ~sctx
    /\ fold \notin {"AllRet", "EachRet", "CountRet"}
    /\ sctx' = TRUE
    /\ UNCHANGED <<pages, failAt, s, scanCalls, fold, manual, lastNext,
                   allKeys, allErr, eachRes, countRes>>
    /\ ScanOnly

(* The consumer calls Next() (and Key()) itself.                           *)
CallNext ==
    /\ fold = "idle"
    /\ LET r == ScannerNext(s, scanCalls)
       IN  /\ s' = r.s
           /\ scanCalls' = r.calls
           /\ lastNext' = [ret |-> r.ret, key |-> ScannerKey(r.s)]
    /\ manual' = TRUE
    /\ UNCHANGED <<pages, failAt, sctx, fold, allKeys, allErr, eachRes, countRes>>
    /\ ScanOnly

(* Scanner.All is entered: var keys []string.                              *)
CallAll ==
    /\ fold = "idle"
    /\ fold' = "All"
    /\ allKeys' = <<>>
    /\ UNCHANGED <<pages, failAt, sctx, s, scanCalls, manual, lastNext, allErr,
                   eachRes, countRes>>
    /\ ScanOnly

(* One iteration of All's loop: for s.Next() { keys = append(keys, s.Key()) } *)
(* and, when Next() answers false, return keys, s.Err().                   *)
AllStep ==
    /\ fold = "All"
    /\ LET r == ScannerNext(s, scanCalls)
       IN  /\ s' = r.s
           /\ scanCalls' = r.calls
           /\ IF r.ret
              THEN /\ allKeys' = Append(allKeys, ScannerKey(r.s))
                   /\ UNCHANGED <<fold, allErr>>
              ELSE /\ fold' = "AllRet"
                   /\ allErr' = r.s.err
                   /\ UNCHANGED allKeys
    /\ UNCHANGED <<pages, failAt, sctx, manual, lastNext, eachRes, countRes>>
    /\ ScanOnly

(* The scanner and the SCAN calls after k advances from the scanner sc on. *)
RECURSIVE ScannerAfter(_, _, _)
ScannerAfter(sc, calls, k) ==
    IF k = 0 THEN [s |-> sc, calls |-> calls]
    ELSE LET r == ScannerNext(sc, calls)
         IN  ScannerAfter(r.s, r.calls, k - 1)

IsPrefix(p, q) == Len(p) <= Len(q) /\ SubSeq(q, 1, Len(p)) = p

(* Scanner.Each(fn) is entered.                                            *)
CallEach ==
    /\ fold = "idle"
    /\ fold' = "Each"
    /\ UNCHANGED <<pages, failAt, sctx, s, scanCalls, manual, lastNext,
                   allKeys, allErr, eachRes, countRes>>
    /\ ScanOnly

(* Each without the break: the loop goes on after fn answered false.       *)
EachStep_NoBreak(cont) ==
    /\ fold = "Each"
    /\ LET r == ScannerNext(s, scanCalls)
       IN  /\ s' = r.s
           /\ scanCalls' = r.calls
           /\ IF r.ret
              THEN /\ eachRes' = [eachRes EXCEPT
                                    !.calls = Append(@, ScannerKey(r.s)),
                                    !.stopped = ~cont,
                                    !.err = r.s.err]
                   /\ fold' = "Each"
              ELSE /\ eachRes' = [eachRes EXCEPT !.err = r.s.err]
                   /\ fold' = "EachRet"
    /\ UNCHANGED <<pages, failAt, sctx, manual, lastNext, allKeys, allErr,
                   countRes>>
    /\ ScanOnly

(* One iteration of Each's loop: for s.Next() { if !fn(s.Key()) { break } } *)
(* and return s.Err(); cont is what fn answers if it is invoked.           *)
EachStep(cont) ==
    /\ fold = "Each"
    /\ LET r == ScannerNext(s, scanCalls)
       IN  /\ s' = r.s
           /\ scanCalls' = r.calls
           /\ IF r.ret
              THEN /\ eachRes' = [eachRes EXCEPT
                                    !.calls = Append(@, ScannerKey(r.s)),
                                    !.stopped = ~cont,
                                    !.err = r.s.err]
                   /\ fold' = IF cont THEN "Each" ELSE "EachRet"
              ELSE /\ eachRes' = [eachRes EXCEPT !.err = r.s.err]
                   /\ fold' = "EachRet"
    /\ UNCHANGED <<pages, failAt, sctx, manual, lastNext, allKeys, allErr,
                   countRes>>
    /\ ScanOnly

(* Scanner.Count is entered: count := 0.                                   *)
CallCount ==
    /\ fold = "idle"
    /\ fold' = "Count"
    /\ UNCHANGED <<pages, failAt, sctx, s, scanCalls, manual, lastNext,
                   allKeys, allErr, eachRes, countRes>>
    /\ ScanOnly

(* One iteration of Count's loop: for s.Next() { count++ } and, when       *)
(* Next() answers false, return count, s.Err().                            *)
CountStep ==
    /\ fold = "Count"
    /\ LET r == ScannerNext(s, scanCalls)
       IN  /\ s' = r.s
           /\ scanCalls' = r.calls
           /\ IF r.ret
              THEN /\ countRes' = [countRes EXCEPT !.count = @ + 1]
                   /\ UNCHANGED fold
              ELSE /\ countRes' = [countRes EXCEPT !.err = r.s.err]
                   /\ fold' = "CountRet"
    /\ UNCHANGED <<pages, failAt, sctx, manual, lastNext, allKeys, allErr,
                   eachRes>>
    /\ ScanOnly

ScanNext ==
    \/ ScanCancel
    \/ CallNext
    \/ CallAll
    \/ AllStep
    \/ CallEach
    \/ \E cont \in BOOLEAN : EachStep(cont)
    \/ CallCount
    \/ CountStep

-----------------------------------------------------------------------------
(* The rate limiter.                                                       *)
(*                                                                         *)
(* Time is counted in ticks, TicksPerSec ticks a second, so that a window  *)
(* of a fraction of a second and the truncations of time.Time.Unix() and   *)
(* int64(Window.Seconds()) are what they are in the code.                  *)
TicksPerSec == 2
MaxTime == 2
MaxOps == 3
MaxFails == 1

(* The configurations and inputs tried: windows of 1..3 ticks (a window    *)
(* under a second, of a whole second, of a second and a fraction).         *)
Windows == {1, 2, 3}
Rates == {1, 2}
Costs == {1, 2}

Idents == {"a", "a:0"}

NoExpiry == -1

Max(a, b) == IF a >= b THEN a ELSE b

(* NewRateLimiter: the defaults of the configuration.                      *)
NewRateLimiter(c) ==
    [KeyPrefix |-> IF c.KeyPrefix = "" THEN "ratelimit" ELSE c.KeyPrefix,
     Rate      |-> c.Rate,
     Window    |-> c.Window,
     BurstSize |-> IF c.BurstSize = 0 THEN c.Rate ELSE c.BurstSize]

(* t.Unix(): whole seconds of a time in ticks.                             *)
Unix(t) == t \div TicksPerSec

(* int64(rl.config.Window.Seconds()): whole seconds of the window.         *)
WindowSeconds == config.Window \div TicksPerSec

(* The window index of buildKey; the division panics when WindowSeconds    *)
(* is 0, which the callers test before using it.                           *)
WindowIndex(t) == Unix(t) \div WindowSeconds

(* buildKey with the identity left out of the key.                         *)
buildKey_NoIdentity(key, t) ==
    config.KeyPrefix \o ":" \o ToString(WindowIndex(t))

(* buildKey with the window index left out of the key.                     *)
buildKey_NoWindow(key, t) ==
    config.KeyPrefix \o ":" \o key

(* RateLimiter.buildKey: fmt.Sprintf("%s:%s:%d", KeyPrefix, key, window)   *)
buildKey(key, t) ==
    config.KeyPrefix \o ":" \o key \o ":" \o ToString(WindowIndex(t))

(* The store's commands, each atomic.                                      *)
StoreIncrBy(db, k, n) ==
    IF k \in DOMAIN db
    THEN [db EXCEPT ![k].val = @ + n]
    ELSE db @@ (k :> [val |-> n, exp |-> NoExpiry])

StoreExpire(db, k, d, t) ==
    IF k \in DOMAIN db THEN [db EXCEPT ![k].exp = t + d] ELSE db

StoreTTL(db, k, t) ==
    IF k \notin DOMAIN db THEN -2
    ELSE IF db[k].exp = NoExpiry THEN -1
    ELSE db[k].exp - t

(* DEL emptying the whole store.                                           *)
StoreDel_All(db, k) == <<>>

StoreDel(db, k) == [x \in DOMAIN db \ {k} |-> db[x]]

(* The store drops the keys whose deadline has passed.                     *)
StoreExpireKeys(db, t) ==
    [x \in {k \in DOMAIN db : db[k].exp = NoExpiry \/ db[k].exp > t} |-> db[x]]

(* AllowNResult deciding with count < Rate.                                *)
AllowNResult_StrictLess(count, ttl, t) ==
    LET remaining == config.Rate - count
        allowed   == count < config.Rate
    IN  [Allowed    |-> allowed,
         Remaining  |-> IF remaining < 0 THEN 0 ELSE remaining,
         ResetAt    |-> IF ttl < 0 THEN t + config.Window ELSE t + ttl,
         RetryAfter |-> IF allowed THEN 0
                        ELSE IF ttl < 0 THEN config.Window ELSE ttl]

(* AllowNResult without the clamp of remaining at 0.                       *)
AllowNResult_NoClamp(count, ttl, t) ==
    LET remaining == config.Rate - count
        allowed   == count <= config.Rate
    IN  [Allowed    |-> allowed,
         Remaining  |-> remaining,
         ResetAt    |-> IF ttl < 0 THEN t + config.Window ELSE t + ttl,
         RetryAfter |-> IF allowed THEN 0
                        ELSE IF ttl < 0 THEN config.Window ELSE ttl]

(* AllowNResult without the fallback for a negative ttl.                   *)
AllowNResult_NoFallback(count, ttl, t) ==
    LET remaining == config.Rate - count
        allowed   == count <= config.Rate
    IN  [Allowed    |-> allowed,
         Remaining  |-> IF remaining < 0 THEN 0 ELSE remaining,
         ResetAt    |-> t + ttl,
         RetryAfter |-> IF allowed THEN 0 ELSE ttl]

(* AllowN, after the pipeline: the result from the counter and the ttl.    *)
AllowNResult(count, ttl, t) ==
    LET remaining == config.Rate - count
        allowed   == count <= config.Rate
    IN  [Allowed    |-> allowed,
         Remaining  |-> IF remaining < 0 THEN 0 ELSE remaining,
         ResetAt    |-> IF ttl < 0 THEN t + config.Window ELSE t + ttl,
         RetryAfter |-> IF allowed THEN 0
                        ELSE IF ttl < 0 THEN config.Window ELSE ttl]

NoResult == [Allowed |-> FALSE, Remaining |-> 0, ResetAt |-> 0, RetryAfter |-> 0]

(* AllowNReturn answering a failed round trip with a decision (fail open). *)
AllowNReturn_FailOpen(ok, count, ttl, t) ==
    IF ok THEN AllowNResult(count, ttl, t)
    ELSE [Allowed |-> TRUE, Remaining |-> config.Rate,
          ResetAt |-> t + config.Window, RetryAfter |-> 0]

(* AllowN lines 113-146: what it returns after pipe.Exec; on an error of   *)
(* the round trip the result is nil.                                       *)
AllowNReturn(ok, count, ttl, t) ==
    IF ok THEN AllowNResult(count, ttl, t) ELSE NoResult

SentOf(p) == IF p \in DOMAIN sent THEN sent[p]
             ELSE [calls |-> 0, sum |-> 0, plain |-> TRUE, key |-> ""]

Put(f, x, v) == [y \in DOMAIN f \cup {x} |-> IF y = x THEN v ELSE f[y]]

LimInit ==
    /\ \E r \in Rates, w \in Windows :
         config = NewRateLimiter([KeyPrefix |-> "", Rate |-> r, Window |-> w,
                                  BurstSize |-> 0])
    /\ now = 0
    /\ rdb = <<>>
    /\ res = [op |-> "none", id |-> "", n |-> 0, at |-> 0, outcome |-> "none",
              key |-> "", count |-> 0, ttl |-> 0, result |-> NoResult,
              seq |-> 0, sumBefore |-> 0, plain |-> TRUE, prevAt |-> -1]
    /\ sent = <<>>
    /\ lastAt = <<>>
    /\ ops = 0
    /\ fails = 0

LimIdle ==
    /\ config = NewRateLimiter([KeyPrefix |-> "", Rate |-> 1, Window |-> TicksPerSec,
                                BurstSize |-> 0])
    /\ now = 0
    /\ rdb = <<>>
    /\ res = [op |-> "none", id |-> "", n |-> 0, at |-> 0, outcome |-> "none",
              key |-> "", count |-> 0, ttl |-> 0, result |-> NoResult,
              seq |-> 0, sumBefore |-> 0, plain |-> TRUE, prevAt |-> -1]
    /\ sent = <<>>
    /\ lastAt = <<>>
    /\ ops = 0
    /\ fails = 0

(* Time passes; the store expires what is due.                             *)
Tick ==
    /\ now < MaxTime
    /\ now' = now + 1
    /\ rdb' = StoreExpireKeys(rdb, now + 1)
    /\ UNCHANGED <<config, res, sent, lastAt, ops, fails>>
    /\ LimOnly

(* RateLimiter.AllowN(ctx, key, n) with a window under one second: the     *)
(* integer division of buildKey panics before any store call.              *)
AllowNPanic(key, n) ==
    /\ ops < MaxOps
    /\ WindowSeconds = 0
    /\ res' = [op |-> "AllowN", id |-> key, n |-> n, at |-> now,
               outcome |-> "panic", key |-> "", count |-> 0, ttl |-> 0,
               result |-> NoResult, seq |-> 0, sumBefore |-> 0,
               plain |-> TRUE, prevAt |-> -1]
    /\ ops' = ops + 1
    /\ UNCHANGED <<config, now, rdb, sent, lastAt, fails>>
    /\ LimOnly

(* RateLimiter.AllowN(ctx, key, n).  The pipeline INCRBY, EXPIRE, TTL is   *)
(* one round trip; done is the number of its commands the store executed   *)
(* (3: all, and Exec answers; fewer: the round trip fails).                *)
AllowN(key, n, done) ==
    /\ ops < MaxOps
    /\ done < 3 => fails < MaxFails
    /\ WindowSeconds # 0
    /\ LET windowKey == buildKey(key, now)
           p     == <<key, WindowIndex(now)>>
           db1   == IF done >= 1 THEN StoreIncrBy(rdb, windowKey, n) ELSE rdb
           db2   == IF done >= 2
                    THEN StoreExpire(db1, windowKey, config.Window, now)
                    ELSE db1
           count == db1[windowKey].val
           ttl   == StoreTTL(db2, windowKey, now)
           g     == SentOf(p)
           ok    == done = 3
       IN  /\ rdb' = db2
           /\ res' = [op |-> "AllowN", id |-> key, n |-> n, at |-> now,
                      outcome |-> IF ok THEN "ok" ELSE "error",
                      key |-> windowKey,
                      count |-> IF ok THEN count ELSE 0,
                      ttl |-> IF ok THEN ttl ELSE 0,
                      result |-> AllowNReturn(ok, count, ttl, now),
                      seq |-> g.calls + 1,
                      sumBefore |-> g.sum,
                      plain |-> g.plain /\ n = 1 /\ ok,
                      prevAt |-> IF key \in DOMAIN lastAt THEN lastAt[key] ELSE -1]
           /\ sent' = IF done >= 1
                      THEN Put(sent, p, [calls |-> g.calls + 1, sum |-> g.sum + n,
                                         plain |-> g.plain /\ n = 1 /\ ok,
                                         key |-> windowKey])
                      ELSE sent
           /\ lastAt' = IF done >= 1 THEN Put(lastAt, key, now) ELSE lastAt
    /\ ops' = ops + 1
    /\ fails' = IF done = 3 THEN fails ELSE fails + 1
    /\ UNCHANGED <<config, now>>
    /\ LimOnly

(* RateLimiter.Reset(ctx, key): DEL of the current window's key; done is   *)
(* the number of commands the store executed (1: the DEL), ok whether the  *)
(* reply arrived.                                                          *)
ResetPanic(key) ==
    /\ ops < MaxOps
    /\ WindowSeconds = 0
    /\ res' = [op |-> "Reset", id |-> key, n |-> 0, at |-> now,
               outcome |-> "panic", key |-> "", count |-> 0, ttl |-> 0,
               result |-> NoResult, seq |-> 0, sumBefore |-> 0,
               plain |-> TRUE, prevAt |-> -1]
    /\ ops' = ops + 1
    /\ UNCHANGED <<config, now, rdb, sent, lastAt, fails>>
    /\ LimOnly

Reset(key, done, ok) ==
    /\ ops < MaxOps
    /\ WindowSeconds # 0
    /\ ~ok => fails < MaxFails
    /\ ok => done = 1
    /\ LET windowKey == buildKey(key, now)
           p == <<key, WindowIndex(now)>>
       IN  /\ rdb' = IF done = 1 THEN StoreDel(rdb, windowKey) ELSE rdb
           /\ sent' = IF done = 1
                      THEN Put(sent, p, [calls |-> 0, sum |-> 0, plain |-> TRUE,
                                         key |-> windowKey])
                      ELSE sent
           /\ res' = [op |-> "Reset", id |-> key, n |-> 0, at |-> now,
                      outcome |-> IF ok THEN "ok" ELSE "error",
                      key |-> windowKey, count |-> 0, ttl |-> 0,
                      result |-> NoResult, seq |-> 0, sumBefore |-> 0,
                      plain |-> TRUE, prevAt |-> -1]
    /\ ops' = ops + 1
    /\ fails' = IF ok THEN fails ELSE fails + 1
    /\ UNCHANGED <<config, now, lastAt>>
    /\ LimOnly

LimNext ==
    \/ Tick
    \/ \E key \in Idents : ResetPanic(key)
    \/ \E key \in Idents, done \in 0..1, ok \in BOOLEAN : Reset(key, done, ok)
    \/ \E key \in Idents, n \in Costs : AllowNPanic(key, n)
    \/ \E key \in Idents, n \in Costs, done \in 0..3 : AllowN(key, n, done)
-----------------------------------------------------------------------------
(* Concurrent callers of one rate limiter.                                 *)
(*                                                                         *)
(* The pipeline of AllowN is not a transaction: the store executes its     *)
(* three commands one by one, and the commands of other callers may fall   *)
(* between them.  Each caller is a process; a step is one store command.   *)
MaxCalls == 2

Callers == {"c1", "c2"}

IdleCall == [op |-> "none", id |-> "", n |-> 0, at |-> 0, key |-> "",
             pc |-> "idle", count |-> 0, ttl |-> 0, result |-> NoResult]

PipeIdle ==
    /\ pipe = [c \in Callers |-> IdleCall]
    /\ pstarted = 0

(* AllowN lines 98-111: now := time.Now(), buildKey, the pipeline queued.  *)
(* A window under a second panics in buildKey (AllowNPanic).               *)
PipeBegin(c, key, n) ==
    /\ pstarted < MaxCalls
    /\ pipe[c].pc \in {"idle", "ret"}
    /\ WindowSeconds # 0
    /\ pipe' = [pipe EXCEPT ![c] =
                  [op |-> "AllowN", id |-> key, n |-> n, at |-> now,
                   key |-> buildKey(key, now), pc |-> "incr", count |-> 0,
                   ttl |-> 0, result |-> NoResult]]
    /\ pstarted' = pstarted + 1
    /\ UNCHANGED <<now, rdb>>
    /\ PipeOnly

(* The store executes the caller's INCRBY.                                 *)
PipeIncrBy(c) ==
    /\ pipe[c].pc = "incr"
    /\ rdb' = StoreIncrBy(rdb, pipe[c].key, pipe[c].n)
    /\ pipe' = [pipe EXCEPT ![c].pc = "expire",
                            ![c].count = rdb'[pipe[c].key].val]
    /\ UNCHANGED <<now, pstarted>>
    /\ PipeOnly

(* The store executes the caller's EXPIRE.                                 *)
PipeExpire(c) ==
    /\ pipe[c].pc = "expire"
    /\ rdb' = StoreExpire(rdb, pipe[c].key, config.Window, now)
    /\ pipe' = [pipe EXCEPT ![c].pc = "ttl"]
    /\ UNCHANGED <<now, pstarted>>
    /\ PipeOnly

(* The store executes the caller's TTL; Exec answers and AllowN returns    *)
(* the result computed from the replies (lines 118-146).                   *)
PipeTTL(c) ==
    /\ pipe[c].pc = "ttl"
    /\ LET ttl == StoreTTL(rdb, pipe[c].key, now)
       IN  pipe' = [pipe EXCEPT ![c].pc = "ret", ![c].ttl = ttl,
                      ![c].result = AllowNResult(pipe[c].count, ttl, pipe[c].at)]
    /\ UNCHANGED <<now, rdb, pstarted>>
    /\ PipeOnly

(* Reset(ctx, key) by a caller: one DEL.                                   *)
PipeReset(c, key) ==
    /\ pstarted < MaxCalls
    /\ pipe[c].pc \in {"idle", "ret"}
    /\ WindowSeconds # 0
    /\ rdb' = StoreDel(rdb, buildKey(key, now))
    /\ pipe' = [pipe EXCEPT ![c] =
                  [op |-> "Reset", id |-> key, n |-> 0, at |-> now,
                   key |-> buildKey(key, now), pc |-> "ret", count |-> 0,
                   ttl |-> 0, result |-> NoResult]]
    /\ pstarted' = pstarted + 1
    /\ UNCHANGED now
    /\ PipeOnly

(* Time passes between two commands.                                       *)
PipeTick ==
    /\ now < MaxTime
    /\ now' = now + 1
    /\ rdb' = StoreExpireKeys(rdb, now + 1)
    /\ UNCHANGED pipeVars
    /\ PipeOnly

PipeNext ==
    \/ PipeTick
    \/ \E c \in Callers, key \in Idents, n \in Costs : PipeBegin(c, key, n)
    \/ \E c \in Callers : PipeIncrBy(c)
    \/ \E c \in Callers : PipeExpire(c)
    \/ \E c \in Callers : PipeTTL(c)
    \/ \E c \in Callers, key \in Idents : PipeReset(c, key)

-----------------------------------------------------------------------------
(* Two limiters side by side: the same sequence of checks is made, at the  *)
(* same times, on the limiter of config over the store rdb and on a second *)
(* limiter over a store of its own, whose configuration differs in         *)
(* BurstSize only.  The limiter is a parameter here.                       *)
MaxTwinTime == 4
MaxChecks == 3

BurstSizes == {0, 1, 5}

(* buildKey of the limiter with configuration cfg.                         *)
buildKeyOf(cfg, key, t) ==
    cfg.KeyPrefix \o ":" \o key \o ":"
        \o ToString(Unix(t) \div (cfg.Window \div TicksPerSec))

(* AllowNOf deciding against BurstSize instead of Rate.                    *)
AllowNOf_BurstLimit(cfg, db, key, n, t) ==
    LET windowKey == buildKeyOf(cfg, key, t)
        db1   == StoreIncrBy(db, windowKey, n)
        db2   == StoreExpire(db1, windowKey, cfg.Window, t)
        count == db1[windowKey].val
        ttl   == StoreTTL(db2, windowKey, t)
        remaining == cfg.BurstSize - count
        allowed   == count <= cfg.BurstSize
    IN  [rdb    |-> db2,
         result |-> [Allowed    |-> allowed,
                     Remaining  |-> IF remaining < 0 THEN 0 ELSE remaining,
                     ResetAt    |-> IF ttl < 0 THEN t + cfg.Window ELSE t + ttl,
                     RetryAfter |-> IF allowed THEN 0
                                    ELSE IF ttl < 0 THEN cfg.Window ELSE ttl]]

(* AllowN of the limiter with configuration cfg over the store db at time  *)
(* t, its round trip answered: the store afterwards and the result.        *)
AllowNOf(cfg, db, key, n, t) ==
    LET windowKey == buildKeyOf(cfg, key, t)
        db1   == StoreIncrBy(db, windowKey, n)
        db2   == StoreExpire(db1, windowKey, cfg.Window, t)
        count == db1[windowKey].val
        ttl   == StoreTTL(db2, windowKey, t)
        remaining == cfg.Rate - count
        allowed   == count <= cfg.Rate
    IN  [rdb    |-> db2,
         result |-> [Allowed    |-> allowed,
                     Remaining  |-> IF remaining < 0 THEN 0 ELSE remaining,
                     ResetAt    |-> IF ttl < 0 THEN t + cfg.Window ELSE t + ttl,
                     RetryAfter |-> IF allowed THEN 0
                                    ELSE IF ttl < 0 THEN cfg.Window ELSE ttl]]

TwinIdle ==
    /\ twin = [config |-> NewRateLimiter([KeyPrefix |-> "", Rate |-> 1,
                                          Window |-> TicksPerSec,
                                          BurstSize |-> 0]),
               rdb |-> <<>>]
    /\ hist = <<>>

(* The second limiter: NewRateLimiter with another BurstSize.              *)
TwinInit ==
    /\ \E b \in BurstSizes :
         twin = [config |-> NewRateLimiter([KeyPrefix |-> "",
                                            Rate |-> config.Rate,
                                            Window |-> config.Window,
                                            BurstSize |-> b]),
                 rdb |-> <<>>]
    /\ hist = <<>>

(* Time passes; both stores expire what is due.                            *)
TwinTick ==
    /\ now < MaxTwinTime
    /\ now' = now + 1
    /\ rdb' = StoreExpireKeys(rdb, now + 1)
    /\ twin' = [twin EXCEPT !.rdb = StoreExpireKeys(@, now + 1)]
    /\ UNCHANGED hist
    /\ TwinOnly

(* AllowN(ctx, key, n) on both limiters.  A window under a second panics   *)
(* in buildKey (AllowNPanic).                                              *)
TwinCheck(key, n) ==
    /\ Len(hist) < MaxChecks
    /\ WindowSeconds # 0
    /\ LET a == AllowNOf(config, rdb, key, n, now)
           b == AllowNOf(twin.config, twin.rdb, key, n, now)
       IN  /\ rdb' = a.rdb
           /\ twin' = [twin EXCEPT !.rdb = b.rdb]
           /\ hist' = Append(hist, [id |-> key, n |-> n, at |-> now,
                                    idx |-> WindowIndex(now),
                                    result |-> a.result,
                                    twinResult |-> b.result])
    /\ UNCHANGED now
    /\ TwinOnly

TwinNext ==
    \/ TwinTick
    \/ \E key \in Idents, n \in Costs : TwinCheck(key, n)

-----------------------------------------------------------------------------
(* The migrator: Migrate and MigrateCluster.                               *)
MaxSrcKeys == 3
MaxFaults == 2
DefaultBatchSize == 100

(* The options tried.  BatchSize 0 takes the default; a TTL of 0 is no      *)
(* override (the code tests opts.TTL > 0).                                 *)
BatchSizes == {0, 1, 2}
TTLs == {0, 5}

(* The source holds k1..km; the even keys carry a TTL of 30, the odd ones  *)
(* none (-1 is the store's answer for a key without expiry).               *)
SourceOf(m) ==
    [k \in {KeyName(i) : i \in 1..m} |->
        [val |-> "v" \o k,
         ttl |-> IF \E i \in 1..m : i % 2 = 0 /\ k = KeyName(i) THEN 30 ELSE -1]]

(* The destination holds a key of its own before the migration.            *)
DstBefore == ("other" :> [val |-> "old", ttl |-> 0])

NoReturn == [res |-> FALSE, err |-> "none", key |-> ""]

EmptyResult == [TotalKeys |-> 0, MigratedKeys |-> 0, FailedKeys |-> 0,
                Errors |-> <<>>]

(* scanAllKeys: the pages of the single node, appended in order.           *)
scanAllKeys == { KeySeq(Cardinality(DOMAIN src)) }

(* scanAllClusterKeys: two masters hold the odd and the even keys; the     *)
(* callbacks of ForEachMaster run concurrently and append to one slice     *)
(* without a lock, so either may come first and an append may be lost.     *)
RECURSIVE SelectSeq2(_, _)
SelectSeq2(sq, odd) ==
    IF sq = <<>> THEN <<>>
    ELSE IF (Len(sq) % 2 = 1) = odd
         THEN Append(SelectSeq2(SubSeq(sq, 1, Len(sq) - 1), odd), sq[Len(sq)])
         ELSE SelectSeq2(SubSeq(sq, 1, Len(sq) - 1), odd)

scanAllClusterKeys ==
    LET all == KeySeq(Cardinality(DOMAIN src))
        a   == SelectSeq2(all, TRUE)
        b   == SelectSeq2(all, FALSE)
    IN  {a \o b, b \o a, a, b}

(* How the store calls of migrateKey may go: all answered; the GET, the    *)
(* TTL or the SET refused; the SET executed and its reply lost.            *)
Faults == {"none", "get", "ttl", "set", "lost"}

(* What the source may answer to the TTL command for a key that had the    *)
(* ttl t when its value was read: t itself; 0 when under half a second is  *)
(* left (the reply is in whole seconds); -2 when the key has expired       *)
(* since the GET.                                                          *)
SrcTTLReplies(t) == IF t > 0 THEN {t, 0, -2} ELSE {t}

(* migrateKey with the override taking precedence over the source ttl.    *)
migrateKey_OverrideFirst(key, fault, ttlRead) ==
    LET data == src[key].val
        ttl  == IF opts.TTL > 0 THEN opts.TTL
                ELSE IF opts.PreserveTTL
                THEN (IF ttlRead < 0 THEN 0 ELSE ttlRead)
                ELSE 0
    IN  IF fault = "get"
        THEN [err |-> "get failed", dst |-> dst,
              reads |-> <<<<"GET", key, "err">>>>]
        ELSE IF opts.PreserveTTL /\ fault = "ttl"
        THEN [err |-> "ttl failed", dst |-> dst,
              reads |-> <<<<"GET", key, data>>, <<"TTL", key, "err">>>>]
        ELSE [err   |-> IF fault = "set" THEN "set failed"
                        ELSE IF fault = "lost" THEN "set failed: reply lost"
                        ELSE "nil",
              dst   |-> IF fault = "set" THEN dst
                        ELSE Put(dst, key, [val |-> data, ttl |-> ttl]),
              reads |-> IF opts.PreserveTTL
                        THEN <<<<"GET", key, data>>, <<"TTL", key, ToString(ttlRead)>>>>
                        ELSE <<<<"GET", key, data>>>>]

(* migrateKey / migrateClusterKey: GET, TTL when preserving, SET.          *)
(* fault names the store call that fails for this key ("none": none),      *)
(* ttlRead is the reply of the source to the TTL command.                  *)
migrateKey(key, fault, ttlRead) ==
    LET data == src[key].val
        ttl  == IF opts.PreserveTTL
                THEN (IF ttlRead < 0 THEN 0 ELSE ttlRead)
                ELSE IF opts.TTL > 0 THEN opts.TTL ELSE 0
    IN  IF fault = "get"
        THEN [err |-> "get failed", dst |-> dst,
              reads |-> <<<<"GET", key, "err">>>>]
        ELSE IF opts.PreserveTTL /\ fault = "ttl"
        THEN [err |-> "ttl failed", dst |-> dst,
              reads |-> <<<<"GET", key, data>>, <<"TTL", key, "err">>>>]
        ELSE [err   |-> IF fault = "set" THEN "set failed"
                        ELSE IF fault = "lost" THEN "set failed: reply lost"
                        ELSE "nil",
              dst   |-> IF fault = "set" THEN dst
                        ELSE Put(dst, key, [val |-> data, ttl |-> ttl]),
              reads |-> IF opts.PreserveTTL
                        THEN <<<<"GET", key, data>>, <<"TTL", key, ToString(ttlRead)>>>>
                        ELSE <<<<"GET", key, data>>>>]

MigInit ==
    /\ \E m \in 0..MaxSrcKeys : src = SourceOf(m)
    /\ cluster \in BOOLEAN
    /\ \E bs \in BatchSizes, ttl \in TTLs, pres \in BOOLEAN, dry \in BOOLEAN,
          onp \in BOOLEAN, one \in BOOLEAN :
         /\ dry => (bs = 0 /\ ttl = 0 /\ ~pres)
         /\ opts = [BatchSize |-> bs, TTL |-> ttl, PreserveTTL |-> pres,
                    DryRun |-> dry, OnProgress |-> onp, OnError |-> one]
    /\ dst = DstBefore
    /\ mctx = FALSE
    /\ mpc = "call"
    /\ keys = <<>>
    /\ bi = 0
    /\ bend = 0
    /\ kj = 0
    /\ result = EmptyResult
    /\ mret = NoReturn
    /\ progress = <<>>
    /\ errCalls = <<>>
    /\ srcReads = <<>>
    /\ faults = 0

MigIdle ==
    /\ src = SourceOf(0)
    /\ cluster = FALSE
    /\ opts = [BatchSize |-> 0, TTL |-> 0, PreserveTTL |-> FALSE,
               DryRun |-> FALSE, OnProgress |-> FALSE, OnError |-> FALSE]
    /\ dst = DstBefore
    /\ mctx = FALSE
    /\ mpc = "call"
    /\ keys = <<>>
    /\ bi = 0
    /\ bend = 0
    /\ kj = 0
    /\ result = EmptyResult
    /\ mret = NoReturn
    /\ progress = <<>>
    /\ errCalls = <<>>
    /\ srcReads = <<>>
    /\ faults = 0

(* The context of the migration is cancelled by its owner.                 *)
MigCancel ==
    /\ mpc # "done"
    /\ ~mctx
    /\ mctx' = TRUE
    /\ UNCHANGED <<opts, cluster, src, dst, mpc, keys, bi, bend, kj, result,
                   mret, progress, errCalls, srcReads, faults>>
    /\ MigOnly

(* MigrateScanFails returning a result next to the error.                  *)
MigrateScanFails_ReturnsResult ==
    /\ mpc = "call"
    /\ opts' = [opts EXCEPT !.BatchSize = IF @ <= 0 THEN DefaultBatchSize ELSE @]
    /\ mret' = [res |-> TRUE, err |-> "scan", key |-> ""]
    /\ mpc' = "done"
    /\ UNCHANGED <<cluster, src, dst, mctx, keys, bi, bend, kj, result,
                   progress, errCalls, srcReads, faults>>
    /\ MigOnly

(* Migrate is called and the enumeration of the source fails:              *)
(* return nil, "failed to scan keys".                                      *)
MigrateScanFails ==
    /\ mpc = "call"
    /\ opts' = [opts EXCEPT !.BatchSize = IF @ <= 0 THEN DefaultBatchSize ELSE @]
    /\ mret' = [res |-> FALSE, err |-> "scan", key |-> ""]
    /\ mpc' = "done"
    /\ UNCHANGED <<cluster, src, dst, mctx, keys, bi, bend, kj, result,
                   progress, errCalls, srcReads, faults>>
    /\ MigOnly

(* MigrateCall without the return of a dry run.                            *)
MigrateCall_NoDryRun ==
    /\ mpc = "call"
    /\ opts' = [opts EXCEPT !.BatchSize = IF @ <= 0 THEN DefaultBatchSize ELSE @]
    /\ \E ks \in (IF cluster THEN scanAllClusterKeys ELSE scanAllKeys) :
         /\ keys' = ks
         /\ result' = [result EXCEPT !.TotalKeys = Len(ks)]
    /\ mpc' = "batch"
    /\ UNCHANGED mret
    /\ bi' = 0
    /\ UNCHANGED <<cluster, src, dst, mctx, bend, kj, progress, errCalls,
                   srcReads, faults>>
    /\ MigOnly

(* Migrate is called: the defaults, the enumeration, TotalKeys, and the    *)
(* return of a dry run.                                                    *)
MigrateCall ==
    /\ mpc = "call"
    /\ opts' = [opts EXCEPT !.BatchSize = IF @ <= 0 THEN DefaultBatchSize ELSE @]
    /\ \E ks \in (IF cluster THEN scanAllClusterKeys ELSE scanAllKeys) :
         /\ keys' = ks
         /\ result' = [result EXCEPT !.TotalKeys = Len(ks)]
    /\ IF opts.DryRun
       THEN /\ mret' = [res |-> TRUE, err |-> "nil", key |-> ""]
            /\ mpc' = "done"
       ELSE /\ mpc' = "batch"
            /\ UNCHANGED mret
    /\ bi' = 0
    /\ UNCHANGED <<cluster, src, dst, mctx, bend, kj, progress, errCalls,
                   srcReads, faults>>
    /\ MigOnly

(* BatchBegin returning no result when it sees the cancellation.           *)
BatchBegin_NilOnCancel ==
    /\ mpc = "batch"
    /\ IF bi >= Len(keys)
       THEN /\ mret' = [res |-> TRUE, err |-> "nil", key |-> ""]
            /\ mpc' = "done"
            /\ UNCHANGED <<bend, kj>>
       ELSE IF mctx
       THEN /\ mret' = [res |-> FALSE, err |-> "canceled", key |-> ""]
            /\ mpc' = "done"
            /\ UNCHANGED <<bend, kj>>
       ELSE /\ bend' = IF bi + opts.BatchSize > Len(keys) THEN Len(keys)
                       ELSE bi + opts.BatchSize
            /\ kj' = bi
            /\ mpc' = "key"
            /\ UNCHANGED mret
    /\ UNCHANGED <<opts, cluster, src, dst, mctx, keys, bi, result, progress,
                   errCalls, srcReads, faults>>
    /\ MigOnly

(* The head of the batch loop: i < len(keys), the cancellation check, the  *)
(* bounds of the batch.                                                    *)
BatchBegin ==
    /\ mpc = "batch"
    /\ IF bi >= Len(keys)
       THEN /\ mret' = [res |-> TRUE, err |-> "nil", key |-> ""]
            /\ mpc' = "done"
            /\ UNCHANGED <<bend, kj>>
       ELSE IF mctx
       THEN /\ mret' = [res |-> TRUE, err |-> "canceled", key |-> ""]
            /\ mpc' = "done"
            /\ UNCHANGED <<bend, kj>>
       ELSE /\ bend' = IF bi + opts.BatchSize > Len(keys) THEN Len(keys)
                       ELSE bi + opts.BatchSize
            /\ kj' = bi
            /\ mpc' = "key"
            /\ UNCHANGED mret
    /\ UNCHANGED <<opts, cluster, src, dst, mctx, keys, bi, result, progress,
                   errCalls, srcReads, faults>>
    /\ MigOnly

(* OnErrorStops with the answer of OnError ignored: never aborts.          *)
OnErrorStops_Never(cont) == FALSE

(* OnErrorStops aborting whatever OnError answers.                         *)
OnErrorStops_Always(cont) == TRUE

(* if !opts.OnError(key, err): the migration aborts when OnError answers   *)
(* false.                                                                  *)
OnErrorStops(cont) == ~cont

(* One key of the batch with the failure counted but not recorded.        *)
MigrateKey_NoErrorEntry(fault, cont) ==
    /\ mpc = "key"
    /\ kj < bend
    /\ fault # "none" => faults < MaxFaults
    /\ fault = "ttl" => opts.PreserveTTL
    /\ \E ttlRead \in SrcTTLReplies(src[keys[kj + 1]].ttl) :
       LET key == keys[kj + 1]
           r   == migrateKey(key, fault, ttlRead)
       IN  /\ dst' = r.dst
           /\ srcReads' = srcReads \o r.reads
           /\ kj' = kj + 1
           /\ faults' = IF fault # "none" THEN faults + 1 ELSE faults
           /\ IF r.err # "nil"
              THEN /\ result' = [result EXCEPT !.FailedKeys = @ + 1]
                   /\ IF opts.OnError
                      THEN /\ errCalls' = Append(errCalls,
                                  [key |-> key, err |-> r.err, cont |-> cont])
                           /\ IF OnErrorStops(cont)
                              THEN /\ mret' = [res |-> TRUE, err |-> "aborted",
                                               key |-> key]
                                   /\ mpc' = "done"
                              ELSE UNCHANGED <<mret, mpc>>
                      ELSE /\ cont
                           /\ UNCHANGED <<errCalls, mret, mpc>>
              ELSE /\ cont
                   /\ result' = [result EXCEPT !.MigratedKeys = @ + 1]
                   /\ UNCHANGED <<errCalls, mret, mpc>>
    /\ UNCHANGED <<opts, cluster, src, mctx, keys, bi, bend, progress>>
    /\ MigOnly

(* One key of the batch: migrateKey, the counters, OnError.                *)
(* cont is what OnError answers when it is called.                         *)
MigrateKey(fault, cont) ==
    /\ mpc = "key"
    /\ kj < bend
    /\ fault # "none" => faults < MaxFaults
    /\ fault = "ttl" => opts.PreserveTTL
    /\ \E ttlRead \in SrcTTLReplies(src[keys[kj + 1]].ttl) :
       LET key == keys[kj + 1]
           r   == migrateKey(key, fault, ttlRead)
       IN  /\ dst' = r.dst
           /\ srcReads' = srcReads \o r.reads
           /\ kj' = kj + 1
           /\ faults' = IF fault # "none" THEN faults + 1 ELSE faults
           /\ IF r.err # "nil"
              THEN /\ result' = [result EXCEPT
                                   !.FailedKeys = @ + 1,
                                   !.Errors = Append(@, [Key |-> key,
                                                         Error |-> r.err])]
                   /\ IF opts.OnError
                      THEN /\ errCalls' = Append(errCalls,
                                  [key |-> key, err |-> r.err, cont |-> cont])
                           /\ IF OnErrorStops(cont)
                              THEN /\ mret' = [res |-> TRUE, err |-> "aborted",
                                               key |-> key]
                                   /\ mpc' = "done"
                              ELSE UNCHANGED <<mret, mpc>>
                      ELSE /\ cont
                           /\ UNCHANGED <<errCalls, mret, mpc>>
              ELSE /\ cont
                   /\ result' = [result EXCEPT !.MigratedKeys = @ + 1]
                   /\ UNCHANGED <<errCalls, mret, mpc>>
    /\ UNCHANGED <<opts, cluster, src, mctx, keys, bi, bend, progress>>
    /\ MigOnly

(* BatchEnd reporting only the keys that succeeded.                        *)
BatchEnd_SuccessOnly ==
    /\ mpc = "key"
    /\ kj = bend
    /\ progress' = IF opts.OnProgress
                   THEN Append(progress,
                               <<result.MigratedKeys, result.TotalKeys>>)
                   ELSE progress
    /\ bi' = bi + opts.BatchSize
    /\ mpc' = "batch"
    /\ UNCHANGED <<opts, cluster, src, dst, mctx, keys, bend, kj, result, mret,
                   errCalls, srcReads, faults>>
    /\ MigOnly

(* BatchEnd advancing i by one less than the batch size.                   *)
BatchEnd_ShortStride ==
    /\ mpc = "key"
    /\ kj = bend
    /\ progress' = IF opts.OnProgress
                   THEN Append(progress,
                               <<result.MigratedKeys + result.FailedKeys,
                                 result.TotalKeys>>)
                   ELSE progress
    /\ bi' = bi + opts.BatchSize - 1
    /\ mpc' = "batch"
    /\ UNCHANGED <<opts, cluster, src, dst, mctx, keys, bend, kj, result, mret,
                   errCalls, srcReads, faults>>
    /\ MigOnly

(* The end of a batch: OnProgress, i += BatchSize.                         *)
BatchEnd ==
    /\ mpc = "key"
    /\ kj = bend
    /\ progress' = IF opts.OnProgress
                   THEN Append(progress,
                               <<result.MigratedKeys + result.FailedKeys,
                                 result.TotalKeys>>)
                   ELSE progress
    /\ bi' = bi + opts.BatchSize
    /\ mpc' = "batch"
    /\ UNCHANGED <<opts, cluster, src, dst, mctx, keys, bend, kj, result, mret,
                   errCalls, srcReads, faults>>
    /\ MigOnly

MigNext ==
    \/ MigCancel
    \/ MigrateScanFails
    \/ MigrateCall
    \/ BatchBegin
    \/ \E fault \in Faults, cont \in BOOLEAN : MigrateKey(fault, cont)
    \/ BatchEnd

-----------------------------------------------------------------------------
(* The client: Gib (store), Run (retrieve), Sprint (counters), Del and     *)
(* Exists.  The cluster builders have the same bodies.                     *)
(*                                                                         *)
(* The store keeps bytes, written here as strings; a counter is the        *)
(* decimal text of an integer.  Every operation takes the outcome of its   *)
(* store call as input: done, whether the store executed the command, and  *)
(* fail, whether the communication failed (no reply reached the client).   *)
MaxCounter == 2

CliKeys == {"k1", "k2"}

Deltas == {1, 2}

(* Go values handed to Gib(...).Value: none, a string, an int, a struct.   *)
NilValue == [type |-> "nil", s |-> "", n |-> 0]

GoValues == {NilValue,
             [type |-> "string", s |-> "x", n |-> 0],
             [type |-> "int", s |-> "", n |-> 1],
             [type |-> "struct", s |-> "u1", n |-> 0]}

(* Destinations handed to Run(...).Bind.                                   *)
Dests == {"nil", "*string", "*int"}

(* GibBuilder.marshal: a string as it is, anything else as JSON.           *)
marshal_AlwaysJSON(v) ==
    IF v.type = "string" THEN "\"" \o v.s \o "\""
    ELSE IF v.type = "int" THEN ToString(v.n)
    ELSE "{" \o v.s \o "}"

marshal(v) ==
    IF v.type = "string" THEN v.s
    ELSE IF v.type = "int" THEN ToString(v.n)
    ELSE "{" \o v.s \o "}"

(* strconv.ParseInt of a reply, and whether it succeeds.                   *)
IsInt(str) == \E n \in -MaxCounter..MaxCounter : ToString(n) = str

ParseInt(str) == CHOOSE n \in -MaxCounter..MaxCounter : ToString(n) = str

(* RunBuilder.unmarshal: does it succeed for this destination.             *)
IsObject(data) ==
    \E v \in GoValues : v.type = "struct" /\ marshal(v) = data

unmarshal(data, dest) ==
    IF dest = "*string" THEN TRUE
    ELSE IF dest = "*int" THEN IsInt(data)
    ELSE IsObject(data)

(* The Go value RunBuilder.unmarshal leaves in the destination.            *)
unmarshalled(data, dest) ==
    IF dest = "*string" THEN [type |-> "string", s |-> data, n |-> 0]
    ELSE IF dest = "*int" THEN [type |-> "int", s |-> "", n |-> ParseInt(data)]
    ELSE CHOOSE v \in GoValues : v.type = "struct" /\ marshal(v) = data

(* The store's commands.                                                   *)
KvSet(db, k, data, ttl) ==
    [x \in DOMAIN db \cup {k} |-> IF x = k THEN [val |-> data, ttl |-> ttl]
                                           ELSE db[x]]

KvDel(db, ks) == [x \in DOMAIN db \ ks |-> db[x]]

(* INCRBY / DECRBY: an absent key counts from 0; a value that is not an    *)
(* integer is refused.                                                     *)
KvCanIncr(db, k) == k \notin DOMAIN db \/ IsInt(db[k].val)

KvCounter(db, k) ==
    IF k \in DOMAIN db /\ IsInt(db[k].val) THEN ParseInt(db[k].val) ELSE 0

KvIncrBy(db, k, d) ==
    [x \in DOMAIN db \cup {k} |->
        IF x = k THEN [val |-> ToString(KvCounter(db, k) + d),
                       ttl |-> IF k \in DOMAIN db THEN db[k].ttl ELSE 0]
        ELSE db[x]]

NoOp == [op |-> "none", key |-> "", calls |-> 0, fail |-> FALSE,
         err |-> "nil", found |-> FALSE, val |-> "", n |-> 0]

CliInit ==
    /\ kv = <<>>
    /\ last = NoOp

(* What a store call may do: answer, fail before the store executed the    *)
(* command, or fail after it.                                              *)
Outcomes == {[done |-> TRUE, fail |-> FALSE], [done |-> FALSE, fail |-> TRUE],
             [done |-> TRUE, fail |-> TRUE]}

(* GibBuilder.Exec without the test of b.value.                            *)
GibExecCall_NoNilCheck(key, v, ttl, o) ==
    /\ kv' = IF o.done
             THEN KvSet(kv, key, marshal(v), IF ttl > 0 THEN ttl ELSE 0)
             ELSE kv
    /\ last' = [NoOp EXCEPT !.op = "Gib.Exec", !.key = key, !.calls = 1,
                            !.fail = o.fail,
                            !.err = IF o.fail THEN "conn" ELSE "nil"]

(* GibBuilder.Exec                                                         *)
GibExecCall(key, v, ttl, o) ==
    IF v = NilValue
    THEN /\ last' = [NoOp EXCEPT !.op = "Gib.Exec", !.key = key,
                                !.err = "ErrNilValue"]
         /\ UNCHANGED kv
    ELSE /\ kv' = IF o.done
                  THEN KvSet(kv, key, marshal(v), IF ttl > 0 THEN ttl ELSE 0)
                  ELSE kv
         /\ last' = [NoOp EXCEPT !.op = "Gib.Exec", !.key = key, !.calls = 1,
                                !.fail = o.fail,
                                !.err = IF o.fail THEN "conn" ELSE "nil"]

(* GibBuilder.Exec, on its own.                                           *)
GibExec(key, v, ttl, o) ==
    /\ GibExecCall(key, v, ttl, o)
    /\ CliOnly

(* RunBuilder.Bind                                                         *)
RunBindCall(key, dest, o) ==
    /\ last' =
         IF dest = "nil"
         THEN [NoOp EXCEPT !.op = "Run.Bind", !.key = key, !.err = "ErrNilPointer"]
         ELSE LET r == [NoOp EXCEPT !.op = "Run.Bind", !.key = key, !.calls = 1,
                                   !.fail = o.fail]
              IN  IF o.fail THEN [r EXCEPT !.err = "conn"]
                  ELSE IF key \notin DOMAIN kv THEN r
                  ELSE IF ~unmarshal(kv[key].val, dest)
                       THEN [r EXCEPT !.err = "unmarshal"]
                  ELSE [r EXCEPT !.found = TRUE, !.val = kv[key].val]
    /\ UNCHANGED kv

(* RunBuilder.Bind, on its own.                                           *)
RunBind(key, dest, o) ==
    /\ RunBindCall(key, dest, o)
    /\ CliOnly

(* RunBuilder.Raw                                                          *)
RunRawCall(key, o) ==
    /\ last' =
         LET r == [NoOp EXCEPT !.op = "Run.Raw", !.key = key, !.calls = 1,
                              !.fail = o.fail]
         IN  IF o.fail THEN [r EXCEPT !.err = "conn"]
             ELSE IF key \notin DOMAIN kv THEN r
             ELSE [r EXCEPT !.found = TRUE, !.val = kv[key].val]
    /\ UNCHANGED kv

(* RunBuilder.Raw, on its own.                                            *)
RunRaw(key, o) ==
    /\ RunRawCall(key, o)
    /\ CliOnly

(* RunBuilder.Bytes                                                        *)
RunBytes(key, o) ==
    /\ last' =
         LET r == [NoOp EXCEPT !.op = "Run.Bytes", !.key = key, !.calls = 1,
                              !.fail = o.fail]
         IN  IF o.fail THEN [r EXCEPT !.err = "conn"]
             ELSE IF key \notin DOMAIN kv THEN r
             ELSE [r EXCEPT !.found = TRUE, !.val = kv[key].val]
    /\ UNCHANGED kv
    /\ CliOnly

(* The counter commands answering the value before the increment.          *)
SprintAdd_ReturnsOld(name, key, d, o) ==
    LET can == KvCanIncr(kv, key)
        r   == [NoOp EXCEPT !.op = name, !.key = key, !.calls = 1,
                           !.fail = o.fail]
    IN  [kv   |-> IF o.done /\ can THEN KvIncrBy(kv, key, d) ELSE kv,
         last |-> IF o.fail THEN [r EXCEPT !.err = "conn"]
                  ELSE IF ~can THEN [r EXCEPT !.err = "notint"]
                  ELSE [r EXCEPT !.n = KvCounter(kv, key)]]

(* The counter commands of Sprint, rdb.IncrBy(key, d).Result(): the store  *)
(* and the reply after the call.                                           *)
SprintAdd(name, key, d, o) ==
    LET can == KvCanIncr(kv, key)
        r   == [NoOp EXCEPT !.op = name, !.key = key, !.calls = 1,
                           !.fail = o.fail]
    IN  [kv   |-> IF o.done /\ can THEN KvIncrBy(kv, key, d) ELSE kv,
         last |-> IF o.fail THEN [r EXCEPT !.err = "conn"]
                  ELSE IF ~can THEN [r EXCEPT !.err = "notint"]
                  ELSE [r EXCEPT !.n = KvCounter(kv, key) + d]]

(* The counters tried stay within -MaxCounter..MaxCounter.                 *)
InRange(key, d) == KvCounter(kv, key) + d \in -MaxCounter..MaxCounter

(* SprintBuilder.Incr                                                      *)
SprintIncr(key, o) ==
    /\ InRange(key, 1)
    /\ kv' = SprintAdd("Sprint.Incr", key, 1, o).kv
    /\ last' = SprintAdd("Sprint.Incr", key, 1, o).last
    /\ CliOnly

(* SprintBuilder.IncrBy                                                    *)
SprintIncrBy(key, n, o) ==
    /\ InRange(key, n)
    /\ kv' = SprintAdd("Sprint.IncrBy", key, n, o).kv
    /\ last' = SprintAdd("Sprint.IncrBy", key, n, o).last
    /\ CliOnly

(* SprintBuilder.Decr                                                      *)
SprintDecr(key, o) ==
    /\ InRange(key, -1)
    /\ kv' = SprintAdd("Sprint.Decr", key, -1, o).kv
    /\ last' = SprintAdd("Sprint.Decr", key, -1, o).last
    /\ CliOnly

(* SprintBuilder.DecrBy                                                    *)
SprintDecrBy(key, n, o) ==
    /\ InRange(key, -n)
    /\ kv' = SprintAdd("Sprint.DecrBy", key, -n, o).kv
    /\ last' = SprintAdd("Sprint.DecrBy", key, -n, o).last
    /\ CliOnly

(* SprintBuilder.Get: rdb.Get(key).Int64(); any error gives 0, nil.        *)
SprintGet(key, o) ==
    /\ last' =
         LET r == [NoOp EXCEPT !.op = "Sprint.Get", !.key = key, !.calls = 1,
                              !.fail = o.fail]
             err == o.fail \/ key \notin DOMAIN kv \/ ~IsInt(kv[key].val)
         IN  IF err THEN r ELSE [r EXCEPT !.n = ParseInt(kv[key].val)]
    /\ UNCHANGED kv
    /\ CliOnly

(* Client.Del(ctx, keys...)                                                *)
DelCall(ks, o) ==
    /\ kv' = IF o.done THEN KvDel(kv, ks) ELSE kv
    /\ last' = [NoOp EXCEPT !.op = "Del", !.calls = 1, !.fail = o.fail,
                           !.err = IF o.fail THEN "conn" ELSE "nil"]

(* Client.Del, on its own.                                                *)
Del(ks, o) ==
    /\ DelCall(ks, o)
    /\ CliOnly

(* Client.Exists(ctx, key)                                                 *)
ExistsCall(key, o) ==
    /\ last' =
         LET r == [NoOp EXCEPT !.op = "Exists", !.key = key, !.calls = 1,
                              !.fail = o.fail]
         IN  IF o.fail THEN [r EXCEPT !.err = "conn"]
             ELSE [r EXCEPT !.found = key \in DOMAIN kv]
    /\ UNCHANGED kv

(* Client.Exists, on its own.                                             *)
Exists(key, o) ==
    /\ ExistsCall(key, o)
    /\ CliOnly

CliNext ==
    \/ \E key \in CliKeys, v \in GoValues, ttl \in TTLs, o \in Outcomes :
         GibExec(key, v, ttl, o)
    \/ \E key \in CliKeys, dest \in Dests, o \in Outcomes : RunBind(key, dest, o)
    \/ \E key \in CliKeys, o \in Outcomes : RunRaw(key, o)
    \/ \E key \in CliKeys, o \in Outcomes : RunBytes(key, o)
    \/ \E key \in CliKeys, o \in Outcomes : SprintIncr(key, o)
    \/ \E key \in CliKeys, n \in Deltas, o \in Outcomes : SprintIncrBy(key, n, o)
    \/ \E key \in CliKeys, o \in Outcomes : SprintDecr(key, o)
    \/ \E key \in CliKeys, n \in Deltas, o \in Outcomes : SprintDecrBy(key, n, o)
    \/ \E key \in CliKeys, o \in Outcomes : SprintGet(key, o)
    \/ \E ks \in SUBSET CliKeys \ {{}}, o \in Outcomes : Del(ks, o)
    \/ \E key \in CliKeys, o \in Outcomes : Exists(key, o)

-----------------------------------------------------------------------------
(* The cluster scanner: ClusterScanner.All and ClusterScanner.Each.        *)
(* ForEachMaster starts one goroutine per master and waits for all of      *)
(* them; the callbacks share allKeys, stopped and fn without a lock.  A    *)
(* step below is one goroutine's next statement, so every interleaving of  *)
(* the callbacks is a behaviour, the one-after-the-other order included.   *)
MaxShardKeys == 2
MaxShardPages == 2
MaxScanFaults == 1

Masters == {1, 2}

ShardKeySeq(m, n) == [i \in 1..n |-> "s" \o ToString(m) \o KeyName(i)]

ShardSplits(m) ==
    UNION { SplitsOf(ShardKeySeq(m, n), MaxShardPages) : n \in 0..MaxShardKeys }

ShardKeys(m) == Flatten(masters[m])

(* Number of occurrences of k in the sequence sq.                          *)
Occurrences(sq, k) == Cardinality({ i \in 1..Len(sq) : sq[i] = k })

CsStart(op, pc0) ==
    [op |-> op, pc |-> [m \in Masters |-> pc0],
     cursor |-> [m \in Masters |-> 0], keys |-> [m \in Masters |-> <<>>],
     ki |-> [m \in Masters |-> 0], snap |-> [m \in Masters |-> <<>>],
     allKeys |-> <<>>, stopped |-> FALSE, calls |-> <<>>,
     errs |-> [m \in Masters |-> ""], faults |-> 0, overlap |-> FALSE,
     ret |-> [keys |-> <<>>, err |-> ""]]

CsIdle ==
    /\ masters = [m \in Masters |-> <<<<>>>>]
    /\ cs = CsStart("idle", "idle")

CsInit ==
    /\ masters \in { f \in [Masters -> UNION { ShardSplits(m) : m \in Masters }] :
                       \A m \in Masters : f[m] \in ShardSplits(m) }
    /\ cs = CsStart("idle", "idle")

(* Another master's callback is in flight while m's takes a step.          *)
Overlaps(m) ==
    \E o \in Masters \ {m} :
        /\ cs.pc[o] \notin {"enter", "done"}
        /\ ~(cs.op = "All" /\ cs.pc[o] = "scan0")

(* The first SCAN of a callback is "scan0": nothing of it has run yet.     *)
\* s.client.rdb.ForEachMaster(...) of All
CsCallAll ==
    /\ cs.op = "idle"
    /\ cs' = CsStart("All", "scan0")
    /\ UNCHANGED masters
    /\ CsOnly

\* s.client.rdb.ForEachMaster(...) of Each
CsCallEach ==
    /\ cs.op = "idle"
    /\ cs' = CsStart("Each", "enter")
    /\ UNCHANGED masters
    /\ CsOnly

(* master.Scan(ctx, cursor, ...) in a callback: the page after the ones    *)
(* already returned, the cursor 0 with the last one; or an error.          *)
CsScan(m, fail, next) ==
    IF fail
    THEN [cs EXCEPT !.pc[m] = "done", !.errs[m] = "scan failed",
                    !.faults = @ + 1, !.overlap = @ \/ Overlaps(m)]
    ELSE LET page == masters[m][cs.cursor[m] + 1]
             final == cs.cursor[m] + 1 = Len(masters[m])
         IN  [cs EXCEPT !.keys[m] = page, !.ki[m] = 0,
                        !.cursor[m] = IF final THEN 0 ELSE @ + 1,
                        !.pc[m] = IF page = <<>> /\ next = "fn"
                                  THEN (IF final THEN "done" ELSE "scan")
                                  ELSE next,
                        !.overlap = @ \/ Overlaps(m)]

AllScan(m) ==
    /\ cs.op = "All"
    /\ cs.pc[m] \in {"scan0", "scan"}
    /\ \E fail \in BOOLEAN :
         /\ fail => cs.faults < MaxScanFaults
         /\ cs' = CsScan(m, fail, "read")
    /\ UNCHANGED masters
    /\ CsOnly

(* allKeys = append(allKeys, keys...): the read of the shared slice ...    *)
AllRead(m) ==
    /\ cs.op = "All"
    /\ cs.pc[m] = "read"
    /\ cs' = [cs EXCEPT !.snap[m] = cs.allKeys, !.pc[m] = "write",
                        !.overlap = @ \/ Overlaps(m)]
    /\ UNCHANGED masters
    /\ CsOnly

(* ... and the write of the result; then `if cursor == 0 { break }`.       *)
AllWrite(m) ==
    /\ cs.op = "All"
    /\ cs.pc[m] = "write"
    /\ cs' = [cs EXCEPT !.allKeys = cs.snap[m] \o cs.keys[m],
                        !.pc[m] = IF cs.cursor[m] = 0 THEN "done" ELSE "scan",
                        !.overlap = @ \/ Overlaps(m)]
    /\ UNCHANGED masters
    /\ CsOnly

(* The error ForEachMaster returns: one of the callbacks' errors, nil when *)
(* none failed.                                                            *)
CsErrs ==
    IF \A m \in Masters : cs.errs[m] = "" THEN {""}
    ELSE { cs.errs[m] : m \in { x \in Masters : cs.errs[x] # "" } }

\* return allKeys, err
AllReturn ==
    /\ cs.op = "All"
    /\ \A m \in Masters : cs.pc[m] = "done"
    /\ \E e \in CsErrs :
         cs' = [cs EXCEPT !.op = "AllRet", !.ret = [keys |-> cs.allKeys, err |-> e]]
    /\ UNCHANGED masters
    /\ CsOnly

\* if stopped { return nil }
EachEnter(m) ==
    /\ cs.op = "Each"
    /\ cs.pc[m] = "enter"
    /\ cs' = [cs EXCEPT !.pc[m] = IF cs.stopped THEN "done" ELSE "scan0",
                        !.overlap = @ \/ Overlaps(m)]
    /\ UNCHANGED masters
    /\ CsOnly

EachScan(m) ==
    /\ cs.op = "Each"
    /\ cs.pc[m] \in {"scan0", "scan"}
    /\ \E fail \in BOOLEAN :
         /\ fail => cs.faults < MaxScanFaults
         /\ cs' = CsScan(m, fail, "fn")
    /\ UNCHANGED masters
    /\ CsOnly

(* if !fn(key) { stopped = true; return nil }, for the next key of the     *)
(* page; after the last key `if cursor == 0 { break }`.                    *)
EachFn(m, cont) ==
    /\ cs.op = "Each"
    /\ cs.pc[m] = "fn"
    /\ LET key  == cs.keys[m][cs.ki[m] + 1]
           call == [key |-> key, cont |-> cont, master |-> m,
                    stopped |-> cs.stopped]
           end  == cs.ki[m] + 1 = Len(cs.keys[m])
       IN  cs' = [cs EXCEPT
                    !.calls = Append(@, call),
                    !.ki[m] = @ + 1,
                    !.stopped = IF cont THEN @ ELSE TRUE,
                    !.pc[m] = IF ~cont THEN "done"
                              ELSE IF ~end THEN "fn"
                              ELSE IF cs.cursor[m] = 0 THEN "done" ELSE "scan",
                    !.overlap = @ \/ Overlaps(m)]
    /\ UNCHANGED masters
    /\ CsOnly

\* return err
EachReturn ==
    /\ cs.op = "Each"
    /\ \A m \in Masters : cs.pc[m] = "done"
    /\ \E e \in CsErrs :
         cs' = [cs EXCEPT !.op = "EachRet", !.ret = [keys |-> <<>>, err |-> e]]
    /\ UNCHANGED masters
    /\ CsOnly

CsNext ==
    \/ CsCallAll
    \/ CsCallEach
    \/ \E m \in Masters : AllScan(m)
    \/ \E m \in Masters : AllRead(m)
    \/ \E m \in Masters : AllWrite(m)
    \/ AllReturn
    \/ \E m \in Masters : EachEnter(m)
    \/ \E m \in Masters : EachScan(m)
    \/ \E m \in Masters, cont \in BOOLEAN : EachFn(m, cont)
    \/ EachReturn

-----------------------------------------------------------------------------
(* Gib, Del and Run on the same keys, with a journal of what the           *)
(* successful Gib(key).Value(v).Exec() and Del(key) calls wrote.  A call   *)
(* that failed, or a Gib with a TTL, leaves the key outside the journal    *)
(* (clean is FALSE from then on).                                          *)
TripDests == Dests \cup {"*struct"}

(* The destination type a value decodes into.                              *)
DestOf(v) == "*" \o v.type

NoJournal ==
    [clean |-> [k \in CliKeys |-> TRUE], cur |-> [k \in CliKeys |-> NilValue],
     gone |-> [k \in CliKeys |-> FALSE], got |-> NilValue, dest |-> ""]

TripIdle == journal = NoJournal

(* The journal after a write: the keys ks are now v (NilValue: deleted)    *)
(* when the call succeeded as the plain call it is, unclean otherwise.     *)
Journal(ks, v, good) ==
    [clean |-> [k \in CliKeys |-> journal.clean[k] /\ (k \in ks => good)],
     cur   |-> [k \in CliKeys |-> IF k \in ks THEN v ELSE journal.cur[k]],
     gone  |-> [k \in CliKeys |->
                  IF k \in ks
                  THEN v = NilValue /\ (journal.gone[k] \/ journal.cur[k] # NilValue)
                  ELSE journal.gone[k]],
     got |-> NilValue, dest |-> ""]

TripGib(key, v, ttl, o) ==
    /\ GibExecCall(key, v, ttl, o)
    /\ journal' = Journal({key}, v, v # NilValue /\ ~o.fail /\ ttl <= 0)
    /\ TripOnly

TripDel(ks, o) ==
    /\ DelCall(ks, o)
    /\ journal' = Journal(ks, NilValue, ~o.fail)
    /\ TripOnly

TripBind(key, dest, o) ==
    /\ RunBindCall(key, dest, o)
    /\ journal' = [journal EXCEPT
                     !.dest = dest,
                     !.got = IF last'.found
                             THEN unmarshalled(kv[key].val, dest)
                             ELSE NilValue]
    /\ TripOnly

TripRaw(key, o) ==
    /\ RunRawCall(key, o)
    /\ journal' = [journal EXCEPT !.dest = "", !.got = NilValue]
    /\ TripOnly

TripExists(key, o) ==
    /\ ExistsCall(key, o)
    /\ journal' = [journal EXCEPT !.dest = "", !.got = NilValue]
    /\ TripOnly

TripNext ==
    \/ \E key \in CliKeys, v \in GoValues, ttl \in TTLs, o \in Outcomes :
         TripGib(key, v, ttl, o)
    \/ \E ks \in SUBSET CliKeys \ {{}}, o \in Outcomes : TripDel(ks, o)
    \/ \E key \in CliKeys, dest \in TripDests, o \in Outcomes :
         TripBind(key, dest, o)
    \/ \E key \in CliKeys, o \in Outcomes : TripRaw(key, o)
    \/ \E key \in CliKeys, o \in Outcomes : TripExists(key, o)

-----------------------------------------------------------------------------
(* The specifications: one per component.                                  *)
ScanSpecInit == ScanInit /\ LimIdle /\ MigIdle /\ PipeIdle /\ CliInit /\ TwinIdle
    /\ CsIdle /\ TripIdle

ScanSpec == ScanSpecInit /\ [][ScanNext]_vars

LimiterSpecInit == LimInit /\ ScanIdle /\ MigIdle /\ PipeIdle /\ CliInit /\ TwinIdle
    /\ CsIdle /\ TripIdle

MigrateSpecInit == MigInit /\ ScanIdle /\ LimIdle /\ PipeIdle /\ CliInit /\ TwinIdle
    /\ CsIdle /\ TripIdle

MigrateSpec == MigrateSpecInit /\ [][MigNext]_vars

LimiterSpec == LimiterSpecInit /\ [][LimNext]_vars

PipelineSpecInit == LimInit /\ ScanIdle /\ MigIdle /\ PipeIdle /\ CliInit /\ TwinIdle
    /\ CsIdle /\ TripIdle

PipelineSpec == PipelineSpecInit /\ [][PipeNext]_vars

ClientSpecInit ==
    CliInit /\ ScanIdle /\ LimIdle /\ MigIdle /\ PipeIdle /\ TwinIdle /\ CsIdle
    /\ TripIdle

ClientSpec == ClientSpecInit /\ [][CliNext]_vars

TwinSpecInit ==
    LimInit /\ TwinInit /\ ScanIdle /\ MigIdle /\ PipeIdle /\ CliInit /\ CsIdle
    /\ TripIdle

TwinSpec == TwinSpecInit /\ [][TwinNext]_vars

ClusterScanSpecInit ==
    CsInit /\ ScanIdle /\ LimIdle /\ MigIdle /\ PipeIdle /\ CliInit /\ TwinIdle
    /\ TripIdle

ClusterScanSpec == ClusterScanSpecInit /\ [][CsNext]_vars

RoundTripSpecInit ==
    CliInit /\ TripIdle /\ ScanIdle /\ LimIdle /\ MigIdle /\ PipeIdle /\ TwinIdle
    /\ CsIdle

RoundTripSpec == RoundTripSpecInit /\ [][TripNext]_vars

-----------------------------------------------------------------------------

-----------------------------------------------------------------------------
(* The properties.                                                         *)

(* C1: All() on a fresh scanner, with no failing SCAN call and no          *)
(* cancellation, returns exactly the keys of all pages, in page order,     *)
(* with a nil error.                                                       *)
C1_AllReturnsEveryKey ==
    (fold = "AllRet" /\ ~manual /\ failAt = 0 /\ ~sctx)
        => (allKeys = Flatten(pages) /\ allErr = "nil")

(* C2: starting from an absent counter, the j-th of the checks of cost 1   *)
(* that fall in one window index is allowed with remaining Rate - j for    *)
(* j <= Rate, and the (Rate+1)-th is denied with RetryAfter <= Window.     *)
C2_QuotaSequence ==
    (res.op = "AllowN" /\ res.outcome = "ok" /\ res.plain) =>
        /\ res.seq <= config.Rate =>
             /\ res.result.Allowed
             /\ res.result.Remaining = config.Rate - res.seq
        /\ res.seq = config.Rate + 1 =>
             /\ ~res.result.Allowed
             /\ res.result.RetryAfter <= config.Window

C2_Witness ==
    /\ res.op = "AllowN" /\ res.outcome = "ok" /\ res.plain
    /\ config.Rate = 2
    /\ res.seq = config.Rate + 1
    /\ ~res.result.Allowed

(* C3: when OnError answers false for a failed key, Migrate returns at     *)
(* once with the partial result and an abort error naming that key; the    *)
(* counters cover exactly the keys up to it and no later key is read or    *)
(* written; when the failed keys are keys that were not copied (no SET was *)
(* executed with its reply lost), MigratedKeys is the number of keys       *)
(* copied before it, and these are the new keys of the destination.        *)
C3_AbortOnDeclinedError ==
    /\ \A i \in 1..Len(errCalls) :
          ~errCalls[i].cont =>
              /\ i = Len(errCalls)
              /\ mpc = "done"
              /\ mret = [res |-> TRUE, err |-> "aborted", key |-> errCalls[i].key]
    /\ mret.err = "aborted" =>
          /\ kj >= 1 /\ mret.key = keys[kj]
          /\ result.Errors[Len(result.Errors)].Key = mret.key
          /\ result.FailedKeys = Len(result.Errors)
          /\ result.MigratedKeys + result.FailedKeys = kj
          /\ (\A i \in 1..Len(result.Errors) :
                 result.Errors[i].Error # "set failed: reply lost") =>
                /\ result.MigratedKeys =
                      Cardinality({i \in 1..(kj - 1) : keys[i] \in DOMAIN dst})
                /\ Cardinality(DOMAIN dst \ DOMAIN DstBefore) = result.MigratedKeys
          /\ \A i \in (kj + 1)..Len(keys) :
                /\ keys[i] \notin DOMAIN dst
                /\ \A n \in 1..Len(srcReads) : srcReads[n][2] # keys[i]

C3_Witness ==
    /\ mret.err = "aborted"
    /\ \A i \in 1..Len(result.Errors) : result.Errors[i].Error = "get failed"
    /\ Len(keys) = 3
    /\ kj = 2
    /\ result.MigratedKeys = 1
    /\ result.FailedKeys = 1

(* C4: a dry run of Migrate returns TotalKeys = the number of matching     *)
(* source keys, zero migrated and failed, a nil error; it reads no value   *)
(* or TTL, writes nothing, and calls neither OnProgress nor OnError.       *)
C4_DryRunTouchesNothing ==
    opts.DryRun =>
        /\ srcReads = <<>>
        /\ dst = DstBefore
        /\ progress = <<>>
        /\ errCalls = <<>>
        /\ result.MigratedKeys = 0
        /\ result.FailedKeys = 0
        /\ mpc \in {"call", "done"}
        /\ (mpc = "done" /\ mret.err # "scan") =>
              /\ mret = [res |-> TRUE, err |-> "nil", key |-> ""]
              /\ result.TotalKeys = Len(keys)
              /\ ~cluster => result.TotalKeys = Cardinality(DOMAIN src)

C4_Witness ==
    /\ opts.DryRun
    /\ ~cluster
    /\ mpc = "done"
    /\ mret.err = "nil"
    /\ result.TotalKeys = 3

(* C5: MigratedKeys + FailedKeys <= TotalKeys in every state of Migrate    *)
(* and MigrateCluster, with equality when the run completes without abort  *)
(* or cancellation.                                                        *)
C5_CountersWithinTotal ==
    /\ result.MigratedKeys + result.FailedKeys <= result.TotalKeys
    /\ (mpc = "done" /\ mret.err = "nil" /\ ~opts.DryRun) =>
          result.MigratedKeys + result.FailedKeys = result.TotalKeys

C5_Witness ==
    /\ mpc = "done"
    /\ mret.err = "nil"
    /\ cluster
    /\ result.TotalKeys = 3
    /\ result.FailedKeys = 1
    /\ result.MigratedKeys = 2
    /\ opts.BatchSize = 2

(* C6: Migrate returns an error only for a failed enumeration, an OnError  *)
(* that answered false, or a cancellation seen at the head of a batch; a   *)
(* key failure that OnError tolerates (or with no OnError) is recorded and *)
(* the remaining keys are still processed.                                 *)
C6_OnlyThreeErrors ==
    mpc = "done" =>
        /\ mret.err \in {"nil", "scan", "canceled", "aborted"}
        /\ mret.err = "scan" => (~mret.res /\ kj = 0 /\ srcReads = <<>>)
        /\ mret.err = "canceled" =>
              (mctx /\ kj = bi /\ bi < Len(keys) /\ bi % opts.BatchSize = 0)
        /\ mret.err = "aborted" =>
              /\ opts.OnError
              /\ Len(errCalls) > 0
              /\ ~errCalls[Len(errCalls)].cont
        /\ (mret.err = "nil" /\ ~opts.DryRun) =>
              /\ kj = Len(keys)
              /\ result.FailedKeys = Len(result.Errors)
              /\ result.MigratedKeys = Len(keys) - Len(result.Errors)
              /\ \A i \in 1..Len(errCalls) : errCalls[i].cont

C6_Witness ==
    /\ mpc = "done"
    /\ mret.err = "nil"
    /\ ~opts.OnError
    /\ result.FailedKeys = 2
    /\ result.MigratedKeys = 1
    /\ result.Errors[1].Key = keys[1]

(* C7: the count a check sees is the sum of the increments made for its    *)
(* own identity in its own window index, whatever was checked for other    *)
(* identities; the counters of different identities have different keys.   *)
C7_IdentitiesDoNotShare ==
    /\ (res.op = "AllowN" /\ res.outcome = "ok") =>
           res.count = res.sumBefore + res.n
    /\ \A p \in DOMAIN sent, q \in DOMAIN sent :
           p[1] # q[1] => sent[p].key # sent[q].key

C7_Witness ==
    /\ res.op = "AllowN" /\ res.outcome = "ok" /\ res.sumBefore > 0
    /\ \E p \in DOMAIN sent, q \in DOMAIN sent :
           /\ p[1] # q[1] /\ p[2] = q[2]
           /\ sent[p].sum > 0 /\ sent[q].sum > 0

(* C8: the first check of an identity made a window or more after its      *)
(* previous check sees a count of exactly n.                               *)
C8_FreshWindowStartsAtN ==
    (/\ res.op = "AllowN" /\ res.outcome = "ok"
     /\ res.prevAt >= 0
     /\ res.at - res.prevAt >= config.Window) =>
        /\ res.count = res.n
        /\ res.result.Allowed = (res.n <= config.Rate)
        /\ res.result.Remaining = Max(0, config.Rate - res.n)

C8_Witness ==
    /\ res.op = "AllowN" /\ res.outcome = "ok"
    /\ res.prevAt >= 0
    /\ res.at - res.prevAt >= config.Window
    /\ \E p \in DOMAIN sent :
           /\ p[1] = res.id
           /\ p[2] < WindowIndex(res.at)
           /\ sent[p].sum > config.Rate

(* C9: a successful check answers allowed = (count <= Rate) and            *)
(* remaining = max(0, Rate - count), count being the counter right after   *)
(* the increment; remaining is never negative.                             *)
C9_DecisionArithmetic ==
    (res.op = "AllowN" /\ res.outcome = "ok") =>
        /\ res.result.Allowed = (res.count <= config.Rate)
        /\ res.result.Remaining = Max(0, config.Rate - res.count)
        /\ res.result.Remaining >= 0
        /\ res.key \in DOMAIN rdb => rdb[res.key].val = res.count

C9_Witness ==
    /\ res.op = "AllowN" /\ res.outcome = "ok"
    /\ res.n = 2
    /\ res.count > config.Rate + 1
    /\ res.result.Remaining = 0

(* C10: a counter key that has an expiry deadline keeps that deadline as   *)
(* long as it exists: later checks do not push it back.                    *)
C10_DeadlineFixedAtCreation ==
    [][\A k \in DOMAIN rdb \cap DOMAIN rdb' :
          rdb[k].exp # NoExpiry => rdb'[k].exp = rdb[k].exp]_vars

(* C11: a check that returns reports resetAt = now + ttl when the store    *)
(* reported a positive ttl; when it reported a negative sentinel (the key  *)
(* missing or without expiry, after a racing delete), resetAt = now +      *)
(* window and a denied check has retryAfter = window.  retryAfter is never *)
(* negative and never exceeds the window.                                  *)
C11_ResetAtAndRetryAfter ==
    \A c \in Callers :
        (pipe[c].op = "AllowN" /\ pipe[c].pc = "ret") =>
            LET r == pipe[c]
            IN  /\ r.ttl > 0 => r.result.ResetAt = r.at + r.ttl
                /\ r.ttl < 0 =>
                      /\ r.result.ResetAt = r.at + config.Window
                      /\ ~r.result.Allowed => r.result.RetryAfter = config.Window
                /\ r.result.RetryAfter >= 0
                /\ r.result.RetryAfter <= config.Window

(* A denied check whose TTL command found the key deleted by another       *)
(* caller.                                                                 *)
C11_Witness ==
    \E c \in Callers :
        /\ pipe[c].op = "AllowN" /\ pipe[c].pc = "ret"
        /\ pipe[c].ttl < 0
        /\ ~pipe[c].result.Allowed
        /\ pipe[c].result.RetryAfter = config.Window

(* C12: Reset(identity) deletes only the identity's counter of the current *)
(* window: every other key of the store, and so the counter of every other *)
(* identity and window, is left as it was; and a check of cost n that      *)
(* follows the delete in the same window gets the count n.                 *)
C12_ResetDeletesOnlyItsKey ==
    [][ops' = ops + 1 =>
          /\ (res'.op = "Reset" /\ res'.outcome # "panic") =>
                /\ \A k \in DOMAIN rdb :
                      k # buildKey(res'.id, now) =>
                          k \in DOMAIN rdb' /\ rdb'[k] = rdb[k]
                /\ DOMAIN rdb' \subseteq DOMAIN rdb
                /\ res'.outcome = "ok" =>
                      buildKey(res'.id, now) \notin DOMAIN rdb'
                /\ \A p \in DOMAIN sent :
                      (p # <<res'.id, WindowIndex(now)>>
                          /\ sent[p].key \in DOMAIN rdb) =>
                      /\ sent[p].key \in DOMAIN rdb'
                      /\ rdb'[sent[p].key] = rdb[sent[p].key]
          /\ (/\ res'.op = "AllowN" /\ res'.outcome = "ok"
              /\ <<res'.id, WindowIndex(now)>> \in DOMAIN sent
              /\ sent[<<res'.id, WindowIndex(now)>>].calls = 0) =>
                res'.count = res'.n
       ]_vars

(* A Reset of an identity that was checked in this window, while the       *)
(* counter of another identity is in the store.                            *)
C12_Witness ==
    /\ res.op = "Reset" /\ res.outcome = "ok"
    /\ res.id \in DOMAIN lastAt
    /\ WindowIndex(lastAt[res.id]) = WindowIndex(res.at)
    /\ res.key \notin DOMAIN rdb
    /\ \E p \in DOMAIN sent :
         /\ p[1] # res.id
         /\ sent[p].calls > 0
         /\ sent[p].key \in DOMAIN rdb

(* C13: a check whose pipeline round trip fails returns the error and a    *)
(* nil result, never a decision; the round trip is made once: the store    *)
(* has executed the increment at most once.                                *)
C13_FailedRoundTripNoDecision ==
    [][(ops' = ops + 1 /\ res'.op = "AllowN" /\ res'.outcome = "error") =>
          LET before == IF res'.key \in DOMAIN rdb THEN rdb[res'.key].val ELSE 0
              after  == IF res'.key \in DOMAIN rdb' THEN rdb'[res'.key].val ELSE 0
              p      == <<res'.id, WindowIndex(now)>>
              sentBefore == IF p \in DOMAIN sent THEN sent[p].calls ELSE 0
              sentAfter  == IF p \in DOMAIN sent' THEN sent'[p].calls ELSE 0
          IN  /\ res'.result = NoResult
              /\ after \in {before, before + res'.n}
              /\ sentAfter <= sentBefore + 1
              /\ fails' = fails + 1
       ]_vars

(* A check whose round trip failed after the store had executed the        *)
(* increment.                                                              *)
C13_Witness ==
    /\ res.op = "AllowN" /\ res.outcome = "error"
    /\ res.key \in DOMAIN rdb
    /\ rdb[res.key].val = res.sumBefore + res.n
    /\ res.result = NoResult

(* C14: every operation whose store call fails with a communication error  *)
(* reports a non-nil error, and has issued its store call exactly once.    *)
C14_FailuresSurfaced ==
    last.fail => (last.err # "nil" /\ last.calls = 1)

(* C15: over an empty store, whose first SCAN answers an empty page with   *)
(* the start cursor, the scanner ends after exactly one store call: every  *)
(* advance is false, All returns no key, Count returns 0, Each invokes fn  *)
(* on nothing, and the error is nil.                                       *)
C15_EmptyStoreOneCall ==
    (pages = <<<<>>>> /\ s.done) =>
        /\ Len(scanCalls) = 1
        /\ s.err = "nil"
        /\ manual => ~lastNext.ret
        /\ fold = "AllRet" => (allKeys = <<>> /\ allErr = "nil")
        /\ fold = "CountRet" => countRes = [count |-> 0, err |-> "nil"]
        /\ fold = "EachRet" => (eachRes.calls = <<>> /\ eachRes.err = "nil")

(* The consumer advanced once over the empty store itself and then ran     *)
(* All.                                                                    *)
C15_Witness ==
    /\ pages = <<<<>>>> /\ s.done
    /\ manual /\ ~lastNext.ret
    /\ fold = "AllRet" /\ allKeys = <<>>
    /\ Len(scanCalls) = 1

(* C16: a SCAN that fails is latched: the advance that met it returned     *)
(* false, no store call is issued after it, no key is yielded after it,    *)
(* Err() keeps the error, and All, Each and Count return it.               *)
C16_ScanErrorLatched ==
    s.err = "scan" =>
        /\ Len(scanCalls) = failAt
        /\ s.buffer = <<>> /\ ScannerKey(s) = ""
        /\ fold = "idle" => (~lastNext.ret /\ lastNext.key = "")
        /\ fold = "AllRet" => allErr = "scan"
        /\ fold = "EachRet" => eachRes.err = "scan"
        /\ fold = "CountRet" => countRes.err = "scan"

(* The consumer's own advance met the failure of the second SCAN, and the  *)
(* Count run afterwards returned the error without another store call.     *)
C16_Witness ==
    /\ s.err = "scan" /\ failAt = 2
    /\ manual /\ ~lastNext.ret
    /\ fold = "CountRet" /\ countRes = [count |-> 0, err |-> "scan"]
    /\ Len(scanCalls) = 2

(* C17: the context is tested on each advance: an advance made after the   *)
(* cancellation while the scan is in progress (not done, no error) only    *)
(* latches the cancellation error: it returns false, yields no key, not    *)
(* even a buffered one, and issues no store call; the fold that made it    *)
(* returns that error, and the error stays.                                *)
C17_CancelStopsAdvance ==
    [][/\ (/\ sctx /\ ~s.done /\ s.err = "nil"
           /\ \/ fold \in {"All", "Each", "Count"}
              \/ fold = "idle" /\ fold' = "idle") =>
             /\ s' = [s EXCEPT !.err = "canceled"]
             /\ scanCalls' = scanCalls
             /\ allKeys' = allKeys
             /\ eachRes'.calls = eachRes.calls
             /\ countRes'.count = countRes.count
             /\ fold = "idle" => (~lastNext'.ret)
             /\ fold = "All" => (fold' = "AllRet" /\ allErr' = "canceled")
             /\ fold = "Each" => (fold' = "EachRet" /\ eachRes'.err = "canceled")
             /\ fold = "Count" => (fold' = "CountRet" /\ countRes'.err = "canceled")
       /\ s.err = "canceled" => (s' = s /\ scanCalls' = scanCalls)
      ]_vars

(* All was cancelled after the first key of a page of two: the second key  *)
(* stays in the buffer and All returns the cancellation error.             *)
C17_Witness ==
    /\ sctx /\ s.err = "canceled"
    /\ s.bufIdx < Len(s.buffer)
    /\ fold = "AllRet" /\ allErr = "canceled"
    /\ Len(allKeys) = 1

(* C18: an empty page that comes with a cursor other than the start cursor *)
(* does not stop the scan: an advance returns false with a nil error only  *)
(* once the store has signalled the end, and every key of the pages after  *)
(* an empty page is yielded (here: collected by an undisturbed All).       *)
C18_EmptyPageDoesNotStop ==
    /\ (fold = "idle" /\ manual /\ ~lastNext.ret /\ s.err = "nil") => s.done
    /\ (fold = "AllRet" /\ allErr = "nil" /\ ~manual) =>
          \A i \in 1..(Len(pages) - 1) :
              pages[i] = <<>> =>
                  \A j \in (i + 1)..Len(pages) :
                      \A x \in 1..Len(pages[j]) :
                          \E m \in 1..Len(allKeys) : allKeys[m] = pages[j][x]

(* C19: Each(fn) invokes fn on the keys in the order Next yields them, as  *)
(* long as fn answers true; once fn answers false Each returns: fn is not  *)
(* invoked again, no SCAN is issued beyond those the keys seen so far      *)
(* took, and the error returned is nil; if fn always answers true, fn is   *)
(* invoked on exactly the keys All would return.                           *)
C19_EachStopsWhenToldTo ==
    (fold \in {"Each", "EachRet"} /\ ~manual) =>
        /\ IsPrefix(eachRes.calls, Flatten(pages))
        /\ ~sctx => IsPrefix(eachRes.calls, ScannerAll(Blusukan, <<>>))
        /\ eachRes.stopped =>
              /\ fold = "EachRet"
              /\ eachRes.err = "nil"
              /\ s = ScannerAfter(Blusukan, <<>>, Len(eachRes.calls)).s
              /\ scanCalls = ScannerAfter(Blusukan, <<>>, Len(eachRes.calls)).calls
        /\ (fold = "EachRet" /\ ~eachRes.stopped /\ ~sctx) =>
              eachRes.calls = ScannerAll(Blusukan, <<>>)

(* fn answered false on the first of three keys spread over several pages: *)
(* Each returned after the one SCAN.                                       *)
C19_Witness ==
    /\ fold = "EachRet" /\ ~manual
    /\ eachRes.stopped /\ eachRes.err = "nil"
    /\ Len(eachRes.calls) = 1
    /\ Len(Flatten(pages)) = 3 /\ Len(pages) >= 2
    /\ Len(scanCalls) = 1

(* C20: every key Migrate has written to the destination holds the value   *)
(* read from the source and the expiry: with PreserveTTL the source's ttl, *)
(* a negative sentinel taken as no expiry, whatever the TTL override; else *)
(* the TTL override if positive; else no expiry.                           *)
C20_ExpiryWritten ==
    \A k \in DOMAIN dst \ DOMAIN DstBefore :
        /\ k \in DOMAIN src
        /\ dst[k].val = src[k].val
        /\ opts.PreserveTTL =>
              \E n \in 1..Len(srcReads), r \in SrcTTLReplies(src[k].ttl) :
                  /\ srcReads[n] = <<"TTL", k, ToString(r)>>
                  /\ dst[k].ttl = (IF r < 0 THEN 0 ELSE r)
        /\ (~opts.PreserveTTL /\ opts.TTL > 0) => dst[k].ttl = opts.TTL
        /\ (~opts.PreserveTTL /\ opts.TTL <= 0) => dst[k].ttl = 0

(* PreserveTTL together with a positive override: one key copied with its  *)
(* source ttl, one key without expiry copied without.                      *)
C20_Witness ==
    /\ opts.PreserveTTL /\ opts.TTL > 0
    /\ \E k \in DOMAIN dst \cap DOMAIN src :
         src[k].ttl > 0 /\ dst[k].ttl = src[k].ttl
    /\ \E k \in DOMAIN dst \cap DOMAIN src :
         src[k].ttl < 0 /\ dst[k].ttl = 0

(* C21: with PreserveTTL, a key that had a positive ttl T at the source    *)
(* when it was copied is in the destination with an expiry d, 0 < d <= T,  *)
(* never without expiry.                                                   *)
C21_PreservedExpiryPositive ==
    opts.PreserveTTL =>
        \A k \in DOMAIN dst \ DOMAIN DstBefore :
            src[k].ttl > 0 => (dst[k].ttl > 0 /\ dst[k].ttl <= src[k].ttl)

(* C22: with the TTL option at zero, a migrated key has in the destination *)
(* the ttl it had at the source.                                           *)
C22_ZeroTTLKeepsSourceTTL ==
    opts.TTL = 0 =>
        \A k \in DOMAIN dst \ DOMAIN DstBefore :
            src[k].ttl > 0 => dst[k].ttl = src[k].ttl

C24_CancelAtBatchHead ==
    mret.err = "canceled" =>
        /\ mpc = "done" /\ mctx
        /\ mret.res
        /\ result.TotalKeys = Len(keys)
        /\ bi < Len(keys) /\ bi % opts.BatchSize = 0
        /\ result.MigratedKeys + result.FailedKeys = bi
        /\ Len(result.Errors) = result.FailedKeys
        /\ \A i \in (bi + 1)..Len(keys) :
              /\ keys[i] \notin DOMAIN dst
              /\ \A n \in 1..Len(srcReads) : srcReads[n][2] # keys[i]

(* Cancelled before the second batch of three keys in batches of two.      *)
C24_Witness ==
    /\ mret.err = "canceled"
    /\ Len(keys) = 3 /\ bi = 2
    /\ result.MigratedKeys + result.FailedKeys = 2
    /\ Len(srcReads) >= 2

(* C25: when the enumeration of the source keys fails, Migrate returns an  *)
(* error and no MigrateResult; it has read no value from the source,       *)
(* written nothing to the destination and called neither OnProgress nor    *)
(* OnError.                                                                *)
C25_ScanFailureTouchesNothing ==
    mret.err = "scan" =>
        /\ mpc = "done"
        /\ ~mret.res
        /\ srcReads = <<>>
        /\ dst = DstBefore
        /\ progress = <<>>
        /\ errCalls = <<>>
        /\ result = EmptyResult

(* The enumeration failed over a source of three keys, with both callbacks *)
(* set.                                                                    *)
C25_Witness ==
    /\ mret.err = "scan" /\ ~mret.res
    /\ Cardinality(DOMAIN src) = 3
    /\ opts.OnProgress /\ opts.OnError
    /\ ~opts.DryRun

(* C26: of the checks of cost 1 made one after another on one identity, at *)
(* most Rate are allowed within one window index, and at most 2 x Rate     *)
(* within any stretch of time no longer than the window.                   *)
C26_AtMostTwiceRate ==
    \A id \in Idents :
        LET granted == {i \in 1..Len(hist) :
                            hist[i].id = id /\ hist[i].n = 1
                                /\ hist[i].result.Allowed}
        IN  /\ \A i \in granted :
                  Cardinality({k \in granted : hist[k].idx = hist[i].idx})
                      <= config.Rate
            /\ \A i \in granted, j \in granted :
                  (i <= j /\ hist[j].at - hist[i].at <= config.Window) =>
                      Cardinality({k \in granted : i <= k /\ k <= j})
                          <= 2 * config.Rate

C28_AllEveryKeyOnce ==
    (cs.op = "AllRet" /\ cs.ret.err = "") =>
        /\ \A m \in Masters : \A i \in 1..Len(ShardKeys(m)) :
               Occurrences(cs.ret.keys, ShardKeys(m)[i]) = 1
        /\ \A i \in 1..Len(cs.ret.keys) :
               \E m \in Masters : Occurrences(ShardKeys(m), cs.ret.keys[i]) = 1

(* C29: once fn has answered false ClusterScanner.Each never invokes it   *)
(* again for any master, and Each returns a nil error.                    *)
C29_EachStopsEverywhere ==
    /\ \A i \in 1..Len(cs.calls) : \A j \in 1..Len(cs.calls) :
           i < j => cs.calls[i].cont
    /\ (cs.op = "EachRet" /\ cs.stopped /\ cs.faults = 0) => cs.ret.err = ""

(* C30: after successful Gib(key).Value(v).Exec() and Del(key) calls on a *)
(* key, Run(key).Raw() and Run(key).Bind(dest), dest of the value's type,  *)
(* report found = true with the value of the latest Gib when no Del came   *)
(* after it, and found = false with a nil error otherwise (a key never     *)
(* written included); Exists(key) is true in exactly the same cases.       *)
C30_RunSeesLatestGib ==
    (last.op \in {"Run.Raw", "Run.Bind", "Exists"} /\ ~last.fail) =>
        LET c == journal.cur[last.key]
        IN  (/\ journal.clean[last.key]
             /\ last.op = "Run.Bind" =>
                  /\ journal.dest # "nil"
                  /\ c # NilValue => journal.dest = DestOf(c))
            => /\ last.err = "nil"
               /\ last.found = (c # NilValue)
               /\ (c # NilValue /\ last.op = "Run.Raw") =>
                    /\ unmarshalled(last.val, DestOf(c)) = c
                    /\ c.type = "string" => last.val = c.s
               /\ (c # NilValue /\ last.op = "Run.Bind") => journal.got = c

(* Bind finds the struct written last to a key that was written, deleted   *)
(* and written again, while the other key has been deleted.                *)
C30_Witness ==
    /\ last.op = "Run.Bind" /\ ~last.fail /\ last.found
    /\ journal.clean[last.key]
    /\ journal.cur[last.key].type = "struct"
    /\ journal.got = journal.cur[last.key]
    /\ \E k \in CliKeys \ {last.key} : journal.clean[k] /\ journal.gone[k]

(* C31: a Sprint Incr / IncrBy(n) / Decr / DecrBy(n) call the store         *)
(* answers returns the counter before it (0 for an absent key) plus its    *)
(* delta, and that is the value stored afterwards, the other keys left     *)
(* alone; Sprint Get returns the stored counter, 0 for an absent key, and  *)
(* changes nothing.                                                        *)
C31_CountersAddUp ==
    [][\A key \in CliKeys, o \in Outcomes :
         (~o.fail /\ KvCanIncr(kv, key)) =>
           LET prev == KvCounter(kv, key)
               Adds(d) ==
                   /\ last'.err = "nil"
                   /\ last'.n = prev + d
                   /\ key \in DOMAIN kv'
                   /\ kv'[key].val = ToString(prev + d)
                   /\ DOMAIN kv' = DOMAIN kv \cup {key}
                   /\ \A k \in DOMAIN kv \ {key} : kv'[k] = kv[k]
           IN  /\ SprintIncr(key, o) => Adds(1)
               /\ SprintDecr(key, o) => Adds(-1)
               /\ \A n \in Deltas :
                    /\ SprintIncrBy(key, n, o) => Adds(n)
                    /\ SprintDecrBy(key, n, o) => Adds(-n)
               /\ SprintGet(key, o) =>
                    (last'.n = prev /\ last'.err = "nil" /\ kv' = kv)]_vars

(* A counter created by Sprint has been taken below zero by DecrBy.        *)
C31_Witness ==
    /\ last.op = "Sprint.DecrBy" /\ ~last.fail /\ last.err = "nil"
    /\ last.n = -1
    /\ last.key \in DOMAIN kv /\ kv[last.key].val = "-1"

(* C32: Gib(key).Exec() with no value set returns ErrNilValue and          *)
(* Run(key).Bind(nil) returns (false, ErrNilPointer); neither makes a      *)
(* store call and the store is left as it was.                             *)
C32_NilRefusedBeforeStore ==
    [][\A key \in CliKeys, o \in Outcomes :
         /\ \A ttl \in TTLs :
              GibExec(key, NilValue, ttl, o) =>
                  (last'.err = "ErrNilValue" /\ last'.calls = 0 /\ kv' = kv)
         /\ RunBind(key, "nil", o) =>
              /\ last'.err = "ErrNilPointer" /\ ~last'.found
              /\ last'.calls = 0 /\ kv' = kv]_vars

(* Gib without a value has been refused on a key that holds a value.       *)
C32_Witness ==
    /\ last.op = "Gib.Exec" /\ last.err = "ErrNilValue" /\ last.calls = 0
    /\ last.key \in DOMAIN kv

(* C33: of concurrent AllowN calls for the same identity and window index, *)
(* whose pipelines the store may interleave command by command, no two     *)
(* observe the same count after their increment, and the costs of the      *)
(* calls that return allowed add up to no more than Rate.                  *)
C33_ConcurrentQuota ==
    /\ \A c \in Callers :
         (pipe[c].op = "AllowN" /\ pipe[c].pc = "ret" /\ pipe[c].result.Allowed)
             => pipe[c].n <= config.Rate
    /\ \A c1 \in Callers : \A c2 \in Callers \ {c1} :
         (/\ pipe[c1].op = "AllowN" /\ pipe[c2].op = "AllowN"
          /\ pipe[c1].key = pipe[c2].key
          /\ pipe[c1].pc \in {"expire", "ttl", "ret"}
          /\ pipe[c2].pc \in {"expire", "ttl", "ret"})
             => /\ pipe[c1].count # pipe[c2].count
                /\ (/\ pipe[c1].pc = "ret" /\ pipe[c1].result.Allowed
                    /\ pipe[c2].pc = "ret" /\ pipe[c2].result.Allowed)
                       => pipe[c1].n + pipe[c2].n <= config.Rate

(* C34: for every window > 0, windows under one second included, the       *)
(* divisor of the window index is a positive integer, so a check or a      *)
(* reset always completes with a result or a store error.                  *)
C34_WindowDivisorPositive ==
    (res.op \in {"AllowN", "Reset"} /\ config.Window > 0) =>
        (WindowSeconds > 0 /\ res.outcome # "panic")

(* C35: the end of a scan is permanent: once the consumer's Next() has     *)
(* returned false every later advance returns false and the scanner is     *)
(* left as it is; once the store has answered cursor 0 no SCAN is issued   *)
(* any more; and no SCAN after the first carries the start cursor.         *)
C35_TerminationPermanent ==
    [][/\ (manual /\ ~lastNext.ret) =>
            /\ s' = s /\ scanCalls' = scanCalls
            /\ ~lastNext'.ret
            /\ allKeys' = allKeys /\ eachRes'.calls = eachRes.calls
            /\ countRes'.count = countRes.count
       /\ s.done => (s'.done /\ scanCalls' = scanCalls)
       /\ \A i \in 2..Len(scanCalls') : scanCalls'[i] # 0]_vars

(* The consumer drained a store of several pages until Next() returned     *)
(* false, and the All run afterwards got nothing without a store call.     *)
C35_Witness ==
    /\ manual /\ ~lastNext.ret
    /\ s.done /\ s.err = "nil"
    /\ Len(pages) >= 2 /\ Len(scanCalls) = Len(pages)
    /\ fold = "AllRet" /\ allKeys = <<>> /\ allErr = "nil"

(* C36: the scanner issues one SCAN per page of the store, the first with  *)
(* the start cursor and each later one with the cursor the previous one    *)
(* returned; an advance that has an unconsumed key in the buffer issues no *)
(* SCAN; the buffer is the page fetched last (empty after a failed SCAN);  *)
(* 0 <= bufIdx <= len(buffer) always; and after a true advance Key() is    *)
(* buffer[bufIdx-1] (the bufIdx-th key of the buffer).                     *)
C36_OneScanPerPage ==
    /\ [](/\ Len(scanCalls) <= Len(pages)
          /\ \A i \in 1..Len(scanCalls) : scanCalls[i] = i - 1
          /\ (s.done /\ s.err # "scan") => Len(scanCalls) = Len(pages)
          /\ s.bufIdx >= 0 /\ s.bufIdx <= Len(s.buffer)
          /\ s.buffer = IF scanCalls = <<>> \/ s.err = "scan" THEN <<>>
                        ELSE pages[Len(scanCalls)]
          /\ (manual /\ lastNext.ret /\ fold = "idle") =>
                (s.bufIdx >= 1 /\ lastNext.key = s.buffer[s.bufIdx]))
    /\ [][s.bufIdx < Len(s.buffer) => scanCalls' = scanCalls]_vars

(* The consumer is on the second key of the second page, two SCANs issued, *)
(* the store not yet at its end.                                           *)
C36_Witness ==
    /\ manual /\ lastNext.ret /\ fold = "idle"
    /\ Len(pages) = 3 /\ ~s.done
    /\ scanCalls = <<0, 1>>
    /\ s.bufIdx = 2 /\ lastNext.key = pages[2][2]

(* C37: Errors holds exactly FailedKeys entries in every state, one per    *)
(* failed key, in the order of the key list; every key of the list is      *)
(* taken up at most once and in that order; OnError, when set, has been    *)
(* invoked exactly once per entry, with the entry's key and error.         *)
C37_ErrorsMatchFailures ==
    LET gets == SelectSeq(srcReads, LAMBDA r : r[1] = "GET")
        Pos(k) == CHOOSE i \in 1..Len(keys) : keys[i] = k
    IN  /\ Len(result.Errors) = result.FailedKeys
        /\ Len(gets) = kj
        /\ \A i \in 1..Len(gets) : gets[i][2] = keys[i]
        /\ \A i \in 1..Len(result.Errors) :
             /\ \E n \in 1..kj : keys[n] = result.Errors[i].Key
             /\ \A j \in 1..Len(result.Errors) :
                  i < j => Pos(result.Errors[i].Key) < Pos(result.Errors[j].Key)
        /\ IF opts.OnError
           THEN /\ Len(errCalls) = Len(result.Errors)
                /\ \A i \in 1..Len(errCalls) :
                     /\ errCalls[i].key = result.Errors[i].Key
                     /\ errCalls[i].err = result.Errors[i].Error
           ELSE errCalls = <<>>

(* Two keys failed in different batches and OnError was asked about each.  *)
C37_Witness ==
    /\ result.FailedKeys = 2 /\ result.MigratedKeys >= 1
    /\ opts.OnError /\ Len(errCalls) = 2
    /\ opts.BatchSize = 1
    /\ mpc = "done"

(* C38: a run that is neither aborted nor cancelled ends with counters,    *)
(* Errors and destination contents that are given by the key list, the     *)
(* options other than BatchSize and the outcome of each key's store calls  *)
(* alone, so they are the same for every batch size; a BatchSize <= 0 is   *)
(* replaced by 100 on entry; and Migrate terminates: every step of it      *)
(* lowers a rank that is never negative, and it is never stuck before it   *)
(* has returned.                                                           *)
C38_BatchSizeImmaterial ==
    /\ [](LET Rank == IF mpc = "call" THEN 3 * Cardinality(DOMAIN src) + 2
                      ELSE IF mpc = "batch"
                           THEN 3 * (IF Len(keys) > bi THEN Len(keys) - bi ELSE 0) + 1
                      ELSE IF mpc = "key"
                           THEN 3 * (Len(keys) - kj) + (IF kj = bend THEN 2 ELSE 0)
                      ELSE 0
               Failed(k) == \E i \in 1..Len(result.Errors) : result.Errors[i].Key = k
               NotWritten(k) ==
                   \E i \in 1..Len(result.Errors) :
                       /\ result.Errors[i].Key = k
                       /\ result.Errors[i].Error # "set failed: reply lost"
               TTLWritten(k) ==
                   IF opts.PreserveTTL
                   THEN { IF r < 0 THEN 0 ELSE r :
                            r \in { x \in SrcTTLReplies(src[k].ttl) :
                                      \E n \in 1..Len(srcReads) :
                                          srcReads[n] = <<"TTL", k, ToString(x)>> } }
                   ELSE { IF opts.TTL > 0 THEN opts.TTL ELSE 0 }
           IN  /\ mpc # "call" => opts.BatchSize >= 1
               /\ Rank >= 0
               /\ mpc # "done" =>
                    ENABLED (\/ MigrateCall \/ BatchBegin \/ BatchEnd
                             \/ \E f \in Faults, c \in BOOLEAN : MigrateKey(f, c))
               /\ (mpc = "done" /\ mret.err = "nil" /\ ~opts.DryRun) =>
                    /\ result.TotalKeys = Len(keys)
                    /\ result.FailedKeys = Len(result.Errors)
                    /\ result.MigratedKeys = Len(keys) - Len(result.Errors)
                    /\ \A n \in 1..Len(keys) :
                         LET k == keys[n]
                         IN  /\ Failed(k) => result.Errors[
                                    Cardinality({m \in 1..n : Failed(keys[m])})].Key = k
                             /\ IF NotWritten(k) THEN k \notin DOMAIN dst
                                ELSE /\ k \in DOMAIN dst
                                     /\ dst[k].val = src[k].val
                                     /\ dst[k].ttl \in TTLWritten(k)
                                     /\ Cardinality(TTLWritten(k)) = 1
                    /\ \A k \in DOMAIN dst :
                         (\A n \in 1..Len(keys) : keys[n] # k) =>
                             (k \in DOMAIN DstBefore /\ dst[k] = DstBefore[k]))
    /\ [][/\ (mpc = "call" /\ mpc' # "call") =>
               opts'.BatchSize = IF opts.BatchSize <= 0 THEN DefaultBatchSize
                                 ELSE opts.BatchSize
          /\ mctx' = mctx =>
               (IF mpc' = "call" THEN 3 * Cardinality(DOMAIN src') + 2
                ELSE IF mpc' = "batch"
                     THEN 3 * (IF Len(keys') > bi' THEN Len(keys') - bi' ELSE 0) + 1
                ELSE IF mpc' = "key"
                     THEN 3 * (Len(keys') - kj') + (IF kj' = bend' THEN 2 ELSE 0)
                ELSE 0)
               < (IF mpc = "call" THEN 3 * Cardinality(DOMAIN src) + 2
                  ELSE IF mpc = "batch"
                       THEN 3 * (IF Len(keys) > bi THEN Len(keys) - bi ELSE 0) + 1
                  ELSE IF mpc = "key"
                       THEN 3 * (Len(keys) - kj) + (IF kj = bend THEN 2 ELSE 0)
                  ELSE 0)]_vars

(* Three keys migrated in batches of two, the second batch a partial one,  *)
(* one key failed and tolerated, the run returned without error.           *)
C38_Witness ==
    /\ mpc = "done" /\ mret.err = "nil" /\ ~opts.DryRun
    /\ opts.BatchSize = 2 /\ Len(keys) = 3
    /\ result.FailedKeys = 1 /\ result.MigratedKeys = 2
    /\ Len(progress) = 2

(* C39: Migrate leaves the source as it was (its only source calls are     *)
(* GET and TTL), the destination keys it has written are exactly the keys  *)
(* it has counted in MigratedKeys, and destination keys outside the key    *)
(* list are unchanged.                                                     *)
C39_WrittenAreTheMigrated ==
    LET written  == DOMAIN dst \ DOMAIN DstBefore
        migrated == { keys[i] : i \in { n \in 1..kj :
                        \A e \in 1..Len(result.Errors) :
                            result.Errors[e].Key # keys[n] } }
    IN  /\ src = SourceOf(Cardinality(DOMAIN src))
        /\ \A n \in 1..Len(srcReads) : srcReads[n][1] \in {"GET", "TTL"}
        /\ written = migrated
        /\ Cardinality(written) = result.MigratedKeys
        /\ \A k \in DOMAIN DstBefore : k \in DOMAIN dst /\ dst[k] = DstBefore[k]

=============================================================================
